---- MODULE Spec2Model ----
(***************************************************************************)
(* Model of the sequencing core of midish (src/frame.c): a track is a list *)
(* of (delta, event) cells closed by the EV_NULL sentinel, a seqptr is a   *)
(* cursor on it that carries the state list of the frames met so far.      *)
(*                                                                         *)
(* Representation.  A track is the sequence of its cells in list order;    *)
(* a cell pointer (sp.pos, st.pos) is the index of the cell in that        *)
(* sequence and is kept pointing at the same cell when a cell is linked or *)
(* unlinked before it.  A pointer to a cell that was unlinked and freed is *)
(* the value Dangling, a pointer that was never set is Unset.  Tics are    *)
(* C unsigned numbers of 32 bits, see "Unsigned numbers" below; a negative *)
(* value stands for a number of 2^31 or more: ~0U is -1.                   *)
(*                                                                         *)
(* state.c, ev.c and track.c are not part of the sources at hand: the      *)
(* event classification and the state list operations are modelled from    *)
(* sections 3, 4.1 and 4.2 of the specification.                           *)
(***************************************************************************)
EXTENDS Integers, Sequences, FiniteSets, TLC

(***************************************************************************)
(* Bounds of the model.                                                    *)
(***************************************************************************)
MaxInitEv == 2
MaxDelta == 1
MaxEvents == 3
MaxLength == 2
MaxSteps == 5
MaxMergeEv == 2
MaxMergeDelta == 2
MaxMoveEv == 3
MaxMoveDelta == 2
MaxMoveStart == 2
MaxMoveLen == 2
MaxRoundEv == 4
MaxRoundDelta == 1
MaxCheckEv == 3
MaxCheckDelta == 1
MaxQuantEv == 3
MaxQuantDelta == 1
MaxQuantStart == 1
MaxQuantLen == 3
MaxQuantOffset == 1
MaxQuant == 4
MaxTransEv == 3
MaxTransDelta == 1
MaxTransStart == 1
MaxHalftones == 1
MaxTimeEv == 3
MaxTimeDelta == 2
MaxMeas == 3
MaxConfEv == 3
MaxConfDelta == 1
MaxConfCalls == 2
MaxTempoEv == 3
MaxTempoDelta == 1
MaxTempoMeas == 2
MaxInsEv == 3
MaxInsDelta == 2
MaxInsMeas == 2
MaxAmount == 1
MaxRmEv == 3
MaxRmDelta == 2
MaxRmMeas == 2
MaxRmAmount == 2
MaxReadEv == 3
MaxReadDelta == 2
MaxReadTics == 2
MaxShotEv == 2
MaxShotDelta == 1

(***************************************************************************)
(* Unsigned numbers.  The tics, deltas and measures of the C code are      *)
(* unsigned numbers of 32 bits.  A number of 2^31 or more is written as    *)
(* the number less 2^32, the int of the same bits: 4294967295 (~0U) is -1  *)
(* and 0xdeadbeef is -559038737.  UAdd, USub, UMul, UDiv and UMod are +,   *)
(* -, *, / and % of C on unsigned operands, modulo 2^32, and ULess is <;   *)
(* "> 0" on an unsigned number is "# 0".  No operator leaves the range of  *)
(* the ints of 32 bits on the way.                                         *)
(***************************************************************************)
IntMax == 2147483647
IntMin == (0 - IntMax) - 1
IntHalf == 1073741824

ULess(a, b) == IF (a < 0) = (b < 0) THEN a < b ELSE b < 0

UAdd(a, b) ==
    IF a >= 0 /\ b >= 0
    THEN IF a > IntMax - b THEN (a + IntMin) + (b + IntMin) ELSE a + b
    ELSE IF a < 0 /\ b < 0
    THEN IF a < IntMin - b THEN (a - IntMin) + (b - IntMin) ELSE a + b
    ELSE a + b

USub(a, b) ==
    IF (a >= 0) = (b >= 0) THEN a - b
    ELSE IF a >= 0
    THEN IF a > IntMax + b THEN (a + IntMin) - (b - IntMin) ELSE a - b
    ELSE IF a < IntMin + b THEN (a - IntMin) - (b + IntMin) ELSE a - b

\* a >> 1
UShr1(a) == IF a >= 0 THEN a \div 2 ELSE ((a - IntMin) \div 2) + IntHalf

RECURSIVE UMulBits(_, _)
\* the product, bit by bit of b
UMulBits(a, b) ==
    IF b = 0 THEN 0
    ELSE UAdd(IF b % 2 = 1 THEN a ELSE 0, UMulBits(UAdd(a, a), UShr1(b)))

UMul(a, b) ==
    IF a >= 0 /\ a < 32768 /\ b >= 0 /\ b < 32768 THEN a * b
    ELSE UMulBits(a, b)

\* a / b for b # 0
UDiv(a, b) ==
    IF a >= 0 /\ b > 0 THEN a \div b
    ELSE IF b < 0 THEN IF ULess(a, b) THEN 0 ELSE 1
    ELSE LET h == UShr1(a) \div b
             q0 == UAdd(h, h)
             r0 == USub(a, UMul(q0, b))
         IN IF ULess(r0, b) THEN q0 ELSE UAdd(q0, 1)

\* a % b for b # 0
UMod(a, b) ==
    IF a >= 0 /\ b > 0 THEN a % b
    ELSE USub(a, UMul(UDiv(a, b), b))

(***************************************************************************)
(* Events (ev.c, modelled from section 3 and 4.1 of the specification).    *)
(***************************************************************************)
EV_PHASE_FIRST == "FIRST"
EV_PHASE_NEXT == "NEXT"
EV_PHASE_LAST == "LAST"

STATE_NEW == "NEW"
STATE_CHANGED == "CHANGED"
STATE_BOGUS == "BOGUS"
STATE_NESTED == "NESTED"

EV_CTL_DEFVAL == 0

NullEv == [cmd |-> "NULL", b0 |-> 0, b1 |-> 0]
NoteOn(p, v) == [cmd |-> "NON", b0 |-> p, b1 |-> v]
NoteOff(p) == [cmd |-> "NOFF", b0 |-> p, b1 |-> 0]
KeyAft(p, v) == [cmd |-> "KAT", b0 |-> p, b1 |-> v]
Ctl(n, v) == [cmd |-> "CTL", b0 |-> n, b1 |-> v]
Prog(v) == [cmd |-> "PC", b0 |-> v, b1 |-> 0]
Tempo(usec24) == [cmd |-> "TEMPO", b0 |-> usec24, b1 |-> 0]
TimeSig(beats, tics) == [cmd |-> "TIMESIG", b0 |-> beats, b1 |-> tics]

EV_ISNOTE(ev) == ev.cmd \in {"NON", "NOFF", "KAT"}

\* phase of an event taken alone
ev_phase(ev) ==
    CASE ev.cmd = "NON" ->
            IF ev.b1 = 0 THEN {EV_PHASE_LAST} ELSE {EV_PHASE_FIRST}
      [] ev.cmd = "NOFF" -> {EV_PHASE_LAST}
      [] ev.cmd = "KAT" -> {EV_PHASE_NEXT}
      [] ev.cmd = "CTL" ->
            IF ev.b1 = EV_CTL_DEFVAL THEN {EV_PHASE_LAST}
            ELSE {EV_PHASE_FIRST, EV_PHASE_NEXT}
      [] OTHER -> {EV_PHASE_FIRST, EV_PHASE_LAST}

\* identity of the frame an event belongs to
FrameId(ev) ==
    CASE EV_ISNOTE(ev) -> <<"note", ev.b0>>
      [] ev.cmd = "CTL" -> <<"ctl", ev.b0>>
      [] OTHER -> <<ev.cmd, 0>>

(***************************************************************************)
(* States and state lists (state.c, modelled from section 3 and 4.2).      *)
(* A state list is the sequence of its states, first = head of the list.   *)
(***************************************************************************)
Unset == 0
Dangling == -1

state_match(st, ev) == FrameId(st.ev) = FrameId(ev)

state_eq(st, ev) == st.ev = ev

\* events that suspend a frame: the controller with its default value.  The
\* controllers are the frames of the model that are no notes and can be in
\* progress; pitch bend, RPN and NRPN are not among its events
state_cancel(st) ==
    IF st.ev.cmd = "CTL" THEN <<Ctl(st.ev.b0, EV_CTL_DEFVAL)>> ELSE <<>>

\* events that reinstate a frame: none for a note, none for a state that is
\* BOGUS or NESTED (such states are never emitted), else the event of the
\* state
state_restore(st) ==
    IF EV_ISNOTE(st.ev) \/ st.flags \cap {STATE_BOGUS, STATE_NESTED} # {}
    THEN <<>> ELSE <<st.ev>>

RemoveAt(s, i) == SubSeq(s, 1, i - 1) \o SubSeq(s, i + 1, Len(s))

InsertAt(s, i, x) == SubSeq(s, 1, i - 1) \o <<x>> \o SubSeq(s, i, Len(s))

RECURSIVE statelist_find(_, _, _)
\* look up the frame of ev.  A terminated state that is found is the
\* state of a frame that is over: its entry is the one of the new frame
\* (flag NEW); a state in progress that is found is not new to this call
statelist_find(sl, ev, i) ==
    IF i > Len(sl) THEN [sl |-> sl, st |-> 0]
    ELSE IF state_match(sl[i], ev)
         THEN IF EV_PHASE_LAST \in sl[i].phase
              THEN [sl |-> [sl EXCEPT ![i].flags = {STATE_NEW}], st |-> i]
              ELSE [sl |-> [sl EXCEPT ![i].flags = @ \ {STATE_NEW}], st |-> i]
         ELSE statelist_find(sl, ev, i + 1)

\* first event of a frame entering a new (or recycled) state
state_start(st, ev) ==
    LET ph == ev_phase(ev)
    IN [st EXCEPT
          !.ev = ev,
          !.phase = IF EV_PHASE_FIRST \in ph THEN ph \ {EV_PHASE_NEXT} ELSE ph,
          !.flags = {STATE_NEW, STATE_CHANGED}
                    \cup (IF EV_PHASE_FIRST \in ph THEN {} ELSE {STATE_BOGUS})]

BlankState ==
    [ev |-> NullEv, phase |-> {}, flags |-> {}, tag |-> 0,
     pos |-> Unset, tic |-> 0]

\* an event of a frame in progress: it continues the frame (NEXT) or ends
\* it (LAST); an event that could only start a frame (a note-on while the
\* note is sounding) continues it too and sets the flag NESTED
state_next(st, ev) ==
    LET ph == ev_phase(ev)
    IN [st EXCEPT
          !.ev = ev,
          !.phase = IF ph = {EV_PHASE_FIRST} THEN {EV_PHASE_NEXT}
                    ELSE ph \ {EV_PHASE_FIRST},
          !.flags = (IF st.ev # ev THEN @ \cup {STATE_CHANGED}
                     ELSE @ \ {STATE_CHANGED})
                    \cup (IF ph = {EV_PHASE_FIRST} THEN {STATE_NESTED}
                          ELSE {})]

\* statelist_update: [sl |-> the new list, st |-> index of the state of ev];
\* there is one state for a frame, allocated when the frame has none
statelist_update(sl, ev) ==
    LET f == statelist_find(sl, ev, 1)
    IN IF f.st = 0
       THEN [sl |-> <<state_start(BlankState, ev)>> \o f.sl, st |-> 1]
       ELSE IF STATE_NEW \in f.sl[f.st].flags
       THEN [sl |-> [f.sl EXCEPT ![f.st] = state_start(@, ev)], st |-> f.st]
       ELSE [sl |-> [f.sl EXCEPT ![f.st] = state_next(@, ev)], st |-> f.st]

RECURSIVE statelist_lookup_from(_, _, _)
statelist_lookup_from(sl, ev, i) ==
    IF i > Len(sl) THEN 0
    ELSE IF state_match(sl[i], ev) THEN i
    ELSE statelist_lookup_from(sl, ev, i + 1)

\* index of the first state of ev's frame, 0 (NULL) if there is none
statelist_lookup(sl, ev) == statelist_lookup_from(sl, ev, 1)

statelist_rm(sl, i) == RemoveAt(sl, i)

RECURSIVE statelist_outdate(_)
statelist_outdate(sl) ==
    IF sl = <<>> THEN <<>>
    ELSE LET s == Head(sl)
         IN IF s.phase = {EV_PHASE_LAST} /\ STATE_NEW \notin s.flags
            THEN statelist_outdate(Tail(sl))
            ELSE <<[s EXCEPT !.flags = @ \ {STATE_NEW, STATE_CHANGED}]>>
                 \o statelist_outdate(Tail(sl))

statelist_dup(src) ==
    [i \in 1..Len(src) |->
        [BlankState EXCEPT
           !.ev = src[i].ev,
           !.phase = src[i].phase,
           !.flags = src[i].flags \ {STATE_NEW, STATE_CHANGED}]]

(***************************************************************************)
(* Cell pointers of the states of a list when a cell is linked or          *)
(* unlinked at index i of the track.                                       *)
(***************************************************************************)
PtrUnlink(p, i) == IF p = i THEN Dangling ELSE IF p > i THEN p - 1 ELSE p

PtrLink(p, i) == IF p >= i THEN p + 1 ELSE p

StatesUnlink(sl, i) ==
    [k \in 1..Len(sl) |-> [sl[k] EXCEPT !.pos = PtrUnlink(@, i)]]

StatesLink(sl, i) ==
    [k \in 1..Len(sl) |-> [sl[k] EXCEPT !.pos = PtrLink(@, i)]]

(***************************************************************************)
(* Tracks.                                                                 *)
(***************************************************************************)
Cell(d, e) == [delta |-> d, ev |-> e]

RECURSIVE SumDelta(_, _)
\* sum of the deltas of the first n cells
SumDelta(t, n) == IF n = 0 THEN 0 ELSE SumDelta(t, n - 1) + t[n].delta

TrackLength(t) == SumDelta(t, Len(t))

NumEvents(t) == Len(t) - 1

\* the (absolute tic, event) pairs of a track, in list order
EvTics(t) == [i \in 1..(Len(t) - 1) |-> <<SumDelta(t, i), t[i].ev>>]

WellFormed(t) ==
    /\ Len(t) >= 1
    /\ t[Len(t)].ev = NullEv
    /\ \A i \in 1..(Len(t) - 1) : t[i].ev.cmd # "NULL"
    /\ \A i \in 1..Len(t) : t[i].delta >= 0

(***************************************************************************)
(* The seqptr primitives.  Each takes the track and the seqptr and gives   *)
(* the record of what the C function leaves: t, sp, and its return value.  *)
(***************************************************************************)
seqptr_init(t) == [pos |-> 1, delta |-> 0, tic |-> 0, statelist |-> <<>>]

\* 0xdeadbeef, 3735928559, as the int of the same 32 bits
DeadBeef == -559038737

\* release the seqptr: statelist_done() frees the states, pos is no cell
seqptr_done(sp) ==
    [pos |-> Dangling, delta |-> DeadBeef, tic |-> 0, statelist |-> <<>>]

seqptr_eot(t, sp) ==
    t[sp.pos].ev.cmd = "NULL" /\ sp.delta = t[sp.pos].delta

seqptr_evavail(t, sp) ==
    t[sp.pos].delta = sp.delta /\ t[sp.pos].ev.cmd # "NULL"

\* st: index in sp.statelist of the state of the event read, 0 for NULL
seqptr_evget(t, sp) ==
    IF sp.delta # t[sp.pos].delta \/ t[sp.pos].ev.cmd = "NULL"
    THEN [t |-> t, sp |-> sp, st |-> 0]
    ELSE LET u == statelist_update(sp.statelist, t[sp.pos].ev)
             sl == IF EV_PHASE_FIRST \in u.sl[u.st].phase
                   THEN [u.sl EXCEPT ![u.st].pos = sp.pos,
                                     ![u.st].tic = sp.tic]
                   ELSE u.sl
         IN [t |-> t,
             sp |-> [sp EXCEPT !.statelist = sl,
                               !.pos = sp.pos + 1,
                               !.delta = 0],
             st |-> u.st]

\* variant: the deleted event also goes to the seqptr's own statelist
seqptr_evdel_own(t, sp, has, slist) ==
    IF sp.delta # t[sp.pos].delta \/ t[sp.pos].ev.cmd = "NULL"
    THEN [t |-> t, sp |-> sp, slist |-> slist, st |-> 0]
    ELSE LET u == IF has THEN statelist_update(slist, t[sp.pos].ev)
                  ELSE [sl |-> slist, st |-> 0]
             next == sp.pos + 1
             t1 == [t EXCEPT ![next].delta = UAdd(@, t[sp.pos].delta)]
         IN [t |-> RemoveAt(t1, sp.pos),
             sp |-> [sp EXCEPT
                       !.statelist =
                           statelist_update(StatesUnlink(@, sp.pos),
                                            t[sp.pos].ev).sl],
             slist |-> u.sl,
             st |-> u.st]

\* has: slist is not NULL.  st: index in slist of the state of the event
seqptr_evdel(t, sp, has, slist) ==
    IF sp.delta # t[sp.pos].delta \/ t[sp.pos].ev.cmd = "NULL"
    THEN [t |-> t, sp |-> sp, slist |-> slist, st |-> 0]
    ELSE LET u == IF has THEN statelist_update(slist, t[sp.pos].ev)
                  ELSE [sl |-> slist, st |-> 0]
             next == sp.pos + 1
             t1 == [t EXCEPT ![next].delta = UAdd(@, t[sp.pos].delta)]
         IN [t |-> RemoveAt(t1, sp.pos),
             sp |-> [sp EXCEPT
                       !.statelist = StatesUnlink(@, sp.pos)],
             slist |-> u.sl,
             st |-> u.st]

\* variant: the cell is linked but not read, the statelist misses it
seqptr_evput_noget(t, sp, ev) ==
    LET se == Cell(sp.delta, ev)
        t1 == [t EXCEPT ![sp.pos].delta = USub(@, sp.delta)]
    IN [t |-> InsertAt(t1, sp.pos, se),
        sp |-> [sp EXCEPT !.statelist = StatesLink(@, sp.pos),
                          !.pos = sp.pos + 1,
                          !.delta = 0],
        st |-> 0]

seqptr_evput(t, sp, ev) ==
    LET se == Cell(sp.delta, ev)
        t1 == [t EXCEPT ![sp.pos].delta = USub(@, sp.delta)]
        t2 == InsertAt(t1, sp.pos, se)
        sp1 == [sp EXCEPT !.statelist = StatesLink(@, sp.pos)]
    IN seqptr_evget(t2, sp1)

Min(a, b) == IF ULess(a, b) THEN a ELSE b

\* variant: the tic of the seqptr is not moved
seqptr_ticskip_notic(t, sp, max) ==
    LET ntics == Min(USub(t[sp.pos].delta, sp.delta), max)
    IN IF ntics # 0
       THEN [t |-> t,
             sp |-> [sp EXCEPT !.delta = UAdd(@, ntics),
                               !.statelist = statelist_outdate(@)],
             n |-> ntics]
       ELSE [t |-> t, sp |-> sp, n |-> ntics]

seqptr_ticskip(t, sp, max) ==
    LET ntics == Min(USub(t[sp.pos].delta, sp.delta), max)
    IN IF ntics # 0
       THEN [t |-> t,
             sp |-> [sp EXCEPT !.delta = UAdd(@, ntics),
                               !.tic = UAdd(@, ntics),
                               !.statelist = statelist_outdate(@)],
             n |-> ntics]
       ELSE [t |-> t, sp |-> sp, n |-> ntics]

\* variant: max tics are removed even if the blank space is shorter
seqptr_ticdel_noclamp(t, sp, max, has, slist) ==
    [t |-> [t EXCEPT ![sp.pos].delta = USub(@, max)],
     sp |-> sp,
     slist |-> IF has /\ max # 0 THEN statelist_outdate(slist) ELSE slist,
     n |-> max]

seqptr_ticdel(t, sp, max, has, slist) ==
    LET ntics == Min(USub(t[sp.pos].delta, sp.delta), max)
    IN [t |-> [t EXCEPT ![sp.pos].delta = USub(@, ntics)],
        sp |-> sp,
        slist |-> IF has /\ max # 0 THEN statelist_outdate(slist) ELSE slist,
        n |-> ntics]

seqptr_ticput(t, sp, ntics) ==
    IF ntics # 0
    THEN [t |-> [t EXCEPT ![sp.pos].delta = UAdd(@, ntics)],
          sp |-> [sp EXCEPT !.delta = UAdd(@, ntics),
                            !.tic = UAdd(@, ntics),
                            !.statelist = statelist_outdate(@)]]
    ELSE [t |-> t, sp |-> sp]

RECURSIVE seqptr_putall(_, _, _)
\* seqptr_evput() of each event of evs in turn
seqptr_putall(t, sp, evs) ==
    IF evs = <<>> THEN [t |-> t, sp |-> sp]
    ELSE LET r == seqptr_evput(t, sp, Head(evs))
         IN seqptr_putall(r.t, r.sp, Tail(evs))

\* st is a state record (of any list); ret is the value returned
seqptr_cancel(t, sp, st) ==
    IF ~EV_ISNOTE(st.ev) /\ EV_PHASE_LAST \notin st.phase
    THEN LET r == seqptr_putall(t, sp, state_cancel(st))
         IN [t |-> r.t, sp |-> r.sp, ret |-> 1]
    ELSE [t |-> t, sp |-> sp, ret |-> 0]

seqptr_restore(t, sp, st) ==
    IF ~EV_ISNOTE(st.ev) /\ EV_PHASE_LAST \notin st.phase
    THEN LET r == seqptr_putall(t, sp, state_restore(st))
         IN [t |-> r.t, sp |-> r.sp, ret |-> 1]
    ELSE [t |-> t, sp |-> sp, ret |-> 0]

\* variant: the delta of the unlinked cell is lost
seqptr_unlink_nodelta(t, sp, i) ==
    [t |-> RemoveAt(t, i),
     sp |-> [sp EXCEPT !.pos = @ - 1,
                       !.statelist = StatesUnlink(@, i)]]

\* unlink the cell at index i (before the cursor), its delta goes to the
\* next cell and to sp.delta if the next cell is the cursor's
seqptr_unlink(t, sp, i) ==
    LET next == i + 1
        t1 == [t EXCEPT ![next].delta = UAdd(@, t[i].delta)]
    IN [t |-> RemoveAt(t1, i),
        sp |-> [sp EXCEPT
                  !.delta = IF next = sp.pos THEN UAdd(@, t[i].delta)
                            ELSE @,
                  !.pos = @ - 1,
                  !.statelist = StatesUnlink(@, i)]]

\* the pointer st.pos can be followed up to the cursor
ValidPos(t, sp, st) == st.pos >= 1 /\ st.pos < sp.pos

RECURSIVE rmlast_scan(_, _, _, _, _)
\* the loop of seqptr_rmlast: i is the cell last visited
rmlast_scan(t, sp, st, i, pc) ==
    IF i + 1 = sp.pos THEN pc
    ELSE IF state_match(st, t[i + 1].ev)
         THEN rmlast_scan(t, sp, st, i + 1, [prev |-> pc.cur, cur |-> i + 1])
         ELSE rmlast_scan(t, sp, st, i + 1, pc)

\* variant: the first cell of the frame is unlinked, not the last
seqptr_rmlast_first(t, sp, k) ==
    LET st == sp.statelist[k]
        pc == rmlast_scan(t, sp, st, st.pos, [prev |-> 0, cur |-> st.pos])
        u == seqptr_unlink(t, sp, st.pos)
    IN IF pc.prev = 0
       THEN [t |-> u.t,
             sp |-> [u.sp EXCEPT !.statelist = statelist_rm(@, k)],
             st |-> 0]
       ELSE [t |-> u.t,
             sp |-> [u.sp EXCEPT
                       !.statelist[k].ev = t[pc.prev].ev,
                       !.statelist[k].phase =
                           IF st.pos = pc.prev THEN {EV_PHASE_FIRST}
                           ELSE {EV_PHASE_NEXT}],
             st |-> k]

\* k: index of the state in sp.statelist; st: index of the state returned
seqptr_rmlast(t, sp, k) ==
    LET st == sp.statelist[k]
        pc == rmlast_scan(t, sp, st, st.pos, [prev |-> 0, cur |-> st.pos])
        u == seqptr_unlink(t, sp, pc.cur)
    IN IF pc.prev = 0
       THEN [t |-> u.t,
             sp |-> [u.sp EXCEPT !.statelist = statelist_rm(@, k)],
             st |-> 0]
       ELSE [t |-> u.t,
             sp |-> [u.sp EXCEPT
                       !.statelist[k].ev = t[pc.prev].ev,
                       !.statelist[k].phase =
                           IF st.pos = pc.prev THEN {EV_PHASE_FIRST}
                           ELSE {EV_PHASE_NEXT}],
             st |-> k]

RECURSIVE rmprev_scan(_, _, _, _)
\* the loop of seqptr_rmprev: i is the cell to examine
rmprev_scan(t, sp, st, i) ==
    LET m == state_match(st, t[i].ev)
        u == IF m THEN seqptr_unlink(t, sp, i) ELSE [t |-> t, sp |-> sp]
        j == IF m THEN i ELSE i + 1
    IN IF j = u.sp.pos THEN u ELSE rmprev_scan(u.t, u.sp, st, j)

\* variant: only the frame-start cell is unlinked
seqptr_rmprev_one(t, sp, k) ==
    LET st == sp.statelist[k]
        u == seqptr_unlink(t, sp, st.pos)
    IN [t |-> u.t,
        sp |-> [u.sp EXCEPT !.statelist = statelist_rm(@, k)],
        st |-> 0]

seqptr_rmprev(t, sp, k) ==
    LET st == sp.statelist[k]
        u == rmprev_scan(t, sp, st, st.pos)
    IN [t |-> u.t,
        sp |-> [u.sp EXCEPT !.statelist = statelist_rm(@, k)],
        st |-> 0]

RECURSIVE seqptr_skip(_, _, _)
RECURSIVE seqptr_getall(_, _)
\* while (seqptr_evget(sp)) ;
seqptr_getall(t, sp) ==
    LET r == seqptr_evget(t, sp)
    IN IF r.st = 0 THEN sp ELSE seqptr_getall(t, r.sp)

\* n: the number of tics that remain at the end of the track
seqptr_skip(t, sp, ntics) ==
    IF seqptr_eot(t, sp) \/ ntics = 0 THEN [t |-> t, sp |-> sp, n |-> ntics]
    ELSE LET sp1 == seqptr_getall(t, sp)
             r == seqptr_ticskip(t, sp1, ntics)
         IN seqptr_skip(t, r.sp, USub(ntics, r.n))

seqptr_seek(t, sp, ntics) ==
    LET r == seqptr_skip(t, sp, ntics)
    IN IF r.n # 0 THEN seqptr_ticput(t, r.sp, r.n)
       ELSE [t |-> t, sp |-> r.sp]

(***************************************************************************)
(* seqptr_evmerge1 and seqptr_evmerge2 of track_merge, on a record m:      *)
(*   t        the cells of dst                                             *)
(*   pd       the seqptr that rewrites dst                                 *)
(*   p2       the seqptr that reads src                                    *)
(*   orglist  the states of the original dst                               *)
(*   fault    the merge hit dbg_panic() or followed a pointer to no cell   *)
(* s1 is an index in m.orglist, s2 an index in m.p2.statelist, 0 is NULL.  *)
(***************************************************************************)
IsBogus(st) == st.flags \cap {STATE_BOGUS, STATE_NESTED} # {}

\* s2 = NULL (s1 = NULL) of seqptr_evmerge1 (seqptr_evmerge2): a bogus or
\* nested state counts as no state
NotBogus(sl, s) == IF s # 0 /\ IsBogus(sl[s]) THEN 0 ELSE s

\* !phase of C as a set of phase bits: 1, the bit of EV_PHASE_FIRST, when
\* phase is 0 and 0 otherwise
LogNot(phase) == IF phase = {} THEN {EV_PHASE_FIRST} ELSE {}

\* sd = seqptr_evput(pd, ev): w is what seqptr_evput() gives
merge_put(m, w) == [m |-> [m EXCEPT !.t = w.t, !.pd = w.sp], sd |-> w.st]

\* variant: the frame is tagged when src has a state of it
evmerge1_tag_inv(m, q2) == IF q2 = 0 THEN 0 ELSE 1

\* (!s2 || (!s2->phase & EV_PHASE_LAST)) ? 1 : 0
evmerge1_tag(m, q2) ==
    IF q2 = 0 \/ EV_PHASE_LAST \in LogNot(m.p2.statelist[q2].phase)
    THEN 1 ELSE 0

\* variant: only the event that starts the frame is put
evmerge1_put_first(m, s1, tag) ==
    IF tag # 0 /\ EV_PHASE_FIRST \in m.orglist[s1].phase
    THEN [merge_put(m, seqptr_evput(m.t, m.pd, m.orglist[s1].ev)).m
             EXCEPT !.orglist[s1].tag = tag]
    ELSE [m EXCEPT !.orglist[s1].tag = tag]

\* m with the tag of s1 set to tag: the event is put if the tag is not 0
evmerge1_put(m, s1, tag) ==
    IF tag # 0
    THEN [merge_put(m, seqptr_evput(m.t, m.pd, m.orglist[s1].ev)).m
             EXCEPT !.orglist[s1].tag = tag]
    ELSE [m EXCEPT !.orglist[s1].tag = tag]

seqptr_evmerge1(m, s1, s2) ==
    IF IsBogus(m.orglist[s1]) THEN m
    ELSE evmerge1_put(m, s1,
                      IF EV_PHASE_FIRST \in m.orglist[s1].phase
                      THEN evmerge1_tag(m, NotBogus(m.p2.statelist, s2))
                      ELSE m.orglist[s1].tag)

\* seqptr_rmprev() or seqptr_rmlast() of state sd of m.pd; what the call
\* does is not defined if the pos of the state is no cell before the
\* cursor.  sd: the state returned
merge_rm(m, sd, all) ==
    IF ~ValidPos(m.t, m.pd, m.pd.statelist[sd])
    THEN [m |-> [m EXCEPT !.fault = TRUE], sd |-> 0]
    ELSE IF all
         THEN merge_put(m, seqptr_rmprev(m.t, m.pd, sd))
         ELSE merge_put(m, seqptr_rmlast(m.t, m.pd, sd))

\* r.m with the tag of s1 set to v1 (if s1 is not NULL) and of s2 to v2
merge_tags(r, q1, v1, s2, v2) ==
    [m |-> IF q1 = 0
           THEN [r.m EXCEPT !.p2.statelist[s2].tag = v2]
           ELSE [r.m EXCEPT !.p2.statelist[s2].tag = v2,
                            !.orglist[q1].tag = v1],
     sd |-> r.sd]

\* s2 starts a frame and s1 is tagged: the events of s1 that conflict are
\* removed from dst
evmerge2_first(m, st1, st2, sd) ==
    IF sd = 0
    THEN [m |-> [m EXCEPT !.fault = TRUE], sd |-> 0]
    ELSE IF (IF EV_ISNOTE(st2.ev) THEN EV_PHASE_LAST \notin st1.phase
             ELSE STATE_CHANGED \in st1.flags)
         THEN merge_rm(m, sd, EV_ISNOTE(st2.ev))
         ELSE [m |-> m, sd |-> sd]

\* s2 ends a frame and s1 is there: the event of s1 is put again
evmerge2_last(m, st1, sd) ==
    IF sd = 0 \/ ~state_eq(m.pd.statelist[sd], st1.ev)
    THEN merge_put(m, seqptr_evput(m.t, m.pd, st1.ev))
    ELSE [m |-> m, sd |-> sd]

\* tag/untag frames depending of if there are conflicts; sd: the state of
\* the frame in m.pd
evmerge2_tag(m, q1, s2, sd) ==
    IF EV_PHASE_FIRST \in m.p2.statelist[s2].phase
    THEN IF q1 # 0 /\ m.orglist[q1].tag # 0
         THEN merge_tags(evmerge2_first(m, m.orglist[q1],
                                        m.p2.statelist[s2], sd),
                         q1, 0, s2, 1)
         ELSE merge_tags([m |-> m, sd |-> sd], 0, 0, s2, 1)
    ELSE IF EV_PHASE_NEXT \in m.p2.statelist[s2].phase
         THEN [m |-> m, sd |-> sd]
         ELSE IF EV_PHASE_LAST \in m.p2.statelist[s2].phase /\ q1 # 0
              THEN merge_tags(evmerge2_last(m, m.orglist[q1], sd),
                              q1, 1, s2, 0)
              ELSE [m |-> m, sd |-> sd]

\* variant: the event is stored only if dst has no state of the frame
evmerge2_store_new(r, s2) ==
    IF r.m.fault THEN r.m
    ELSE IF r.m.p2.statelist[s2].tag # 0 /\ r.sd = 0
         THEN merge_put(r.m, seqptr_evput(r.m.t, r.m.pd,
                                          r.m.p2.statelist[s2].ev)).m
         ELSE r.m

\* store the event, if the frame is tagged
evmerge2_store(r, s2) ==
    IF r.m.fault THEN r.m
    ELSE IF r.m.p2.statelist[s2].tag # 0
            /\ (r.sd = 0
                \/ ~state_eq(r.m.pd.statelist[r.sd], r.m.p2.statelist[s2].ev))
         THEN merge_put(r.m, seqptr_evput(r.m.t, r.m.pd,
                                          r.m.p2.statelist[s2].ev)).m
         ELSE r.m

seqptr_evmerge2(m, s1, s2) ==
    IF IsBogus(m.p2.statelist[s2]) THEN m
    ELSE evmerge2_store(
             evmerge2_tag(m, NotBogus(m.orglist, s1), s2,
                          statelist_lookup(m.pd.statelist,
                                           m.p2.statelist[s2].ev)),
             s2)

\* track_chomp (track.c): the blank space at the end of the track goes
track_chomp(t) == [t EXCEPT ![Len(t)].delta = 0]

RECURSIVE ReplayOK(_, _)
\* reading t from seqptr c to the end meets no bogus and no nested event
\* and leaves no frame that is not terminated
ReplayOK(t, c) ==
    IF seqptr_evavail(t, c)
    THEN LET r == seqptr_evget(t, c)
         IN ~IsBogus(r.sp.statelist[r.st]) /\ ReplayOK(t, r.sp)
    ELSE IF seqptr_eot(t, c)
         THEN \A k \in 1..Len(c.statelist) :
                 EV_PHASE_LAST \in c.statelist[k].phase
         ELSE ReplayOK(t, seqptr_ticskip(t, c, USub(t[c.pos].delta,
                                                     c.delta)).sp)

Consistent(t) == ReplayOK(t, seqptr_init(t))

(***************************************************************************)
(* track_move(src, start, len, es, dst, copy, blank).  The tag of a state  *)
(* of slist is a set of the bits TAG_KEEP and TAG_COPY, kept as a number.  *)
(* An evspec (ev.c, not part of the sources at hand) is modelled as one of *)
(* "ALL", "NOTE", "CTL": every event, the note events, the controllers.    *)
(***************************************************************************)
TAG_KEEP == 1
TAG_COPY == 2

\* ~0U, 4294967295 tics
AllTics == -1

HasTag(tag, b) == (tag \div b) % 2 = 1

SetTag(tag, b) == IF HasTag(tag, b) THEN tag ELSE tag + b

ClrTag(tag, b) == IF HasTag(tag, b) THEN tag - b ELSE tag

evspec_matchev(es, ev) ==
    \/ es = "ALL"
    \/ es = "NOTE" /\ EV_ISNOTE(ev)
    \/ es = "CTL" /\ ev.cmd = "CTL"

\* track_clear (track.c): no event, no blank space
track_clear == <<Cell(0, NullEv)>>

\* statelist_dup() followed by st->tag = TAG_KEEP on every state
move_dup(sl) ==
    [i \in 1..Len(sl) |-> [statelist_dup(sl)[i] EXCEPT !.tag = TAG_KEEP]]

\* phase & FIRST, or phase & NEXT of an event that is not a note
StartsOrSets(st) ==
    \/ EV_PHASE_FIRST \in st.phase
    \/ EV_PHASE_NEXT \in st.phase /\ ~EV_ISNOTE(st.ev)

\* the tag of state st after an event of its frame was taken from src:
\* at the first tic of the selection, inside it, at the first tic after it
\* and in the rest of the track
move_tag(where, st, es) ==
    CASE where = "move_first" ->
            IF EV_PHASE_FIRST \in st.phase
            THEN ClrTag(IF evspec_matchev(es, st.ev)
                        THEN SetTag(st.tag, TAG_COPY)
                        ELSE ClrTag(st.tag, TAG_COPY), TAG_KEEP)
            ELSE IF StartsOrSets(st)
                 THEN IF evspec_matchev(es, st.ev)
                      THEN SetTag(st.tag, TAG_COPY)
                      ELSE ClrTag(st.tag, TAG_COPY)
                 ELSE st.tag
      [] where = "move_tics" ->
            IF EV_PHASE_FIRST \in st.phase
            THEN IF evspec_matchev(es, st.ev) THEN TAG_COPY ELSE TAG_KEEP
            ELSE st.tag
      [] where = "move_end" ->
            IF EV_PHASE_FIRST \in st.phase
            THEN ClrTag(SetTag(st.tag, TAG_KEEP), TAG_COPY)
            ELSE IF StartsOrSets(st) THEN SetTag(st.tag, TAG_KEEP)
                 ELSE st.tag
      [] OTHER ->
            IF EV_PHASE_FIRST \in st.phase
            THEN SetTag(ClrTag(st.tag, TAG_COPY), TAG_KEEP)
            ELSE st.tag

\* a move record: t, sp the track src and its seqptr, d, dp the track dst
\* and its seqptr, slist the states of the original src
MoveRecOf(t, p, d, dp, sl) ==
    [t |-> t, sp |-> p, d |-> d, dp |-> dp, slist |-> sl]

\* if (copy && (st->tag & TAG_COPY)) seqptr_evput(&dp, &st->ev);
\* if (!blank || (st->tag & TAG_KEEP)) seqptr_evput(&sp, &st->ev);
\* where st is state k of mv.slist and tag its new tag
move_route(mv, k, tag, copy, blank) ==
    [t |-> IF ~blank \/ HasTag(tag, TAG_KEEP)
           THEN seqptr_evput(mv.t, mv.sp, mv.slist[k].ev).t ELSE mv.t,
     sp |-> IF ~blank \/ HasTag(tag, TAG_KEEP)
            THEN seqptr_evput(mv.t, mv.sp, mv.slist[k].ev).sp ELSE mv.sp,
     d |-> IF copy /\ HasTag(tag, TAG_COPY)
           THEN seqptr_evput(mv.d, mv.dp, mv.slist[k].ev).t ELSE mv.d,
     dp |-> IF copy /\ HasTag(tag, TAG_COPY)
            THEN seqptr_evput(mv.d, mv.dp, mv.slist[k].ev).sp ELSE mv.dp,
     slist |-> [mv.slist EXCEPT ![k].tag = tag]]

\* st = seqptr_evdel(&sp, &slist) gave e; the frame is tagged and the event
\* is routed
move_event(mv, e, where, es, copy, blank) ==
    move_route(MoveRecOf(e.t, e.sp, mv.d, mv.dp, e.slist), e.st,
               move_tag(where, e.slist[e.st], es), copy, blank)

\* a call that was not made: seqptr_cancel() and seqptr_restore() are
\* called only if the tests before them hold
NotCalled == [ret |-> 0]

\* c is what seqptr_cancel() or seqptr_restore() gave for state i, called
\* on src (onsrc) or on dst: if it put events the state gets the tag
move_called(mv, i, c, onsrc, tag) ==
    IF c.ret # 1 THEN mv
    ELSE IF onsrc
         THEN [mv EXCEPT !.t = c.t, !.sp = c.sp, !.slist[i].tag = tag]
         ELSE [mv EXCEPT !.d = c.t, !.dp = c.sp, !.slist[i].tag = tag]

RECURSIVE move_cancel_src(_, _, _)
\* cancel/tag frames that will be erased (blank only), from state i on
move_cancel_src(mv, i, es) ==
    IF i > Len(mv.slist) THEN mv
    ELSE move_cancel_src(
             move_called(mv, i,
                         IF evspec_matchev(es, mv.slist[i].ev)
                         THEN seqptr_cancel(mv.t, mv.sp, mv.slist[i])
                         ELSE NotCalled,
                         TRUE, ClrTag(mv.slist[i].tag, TAG_KEEP)),
             i + 1, es)

RECURSIVE move_restore_dst(_, _, _)
\* in the copy, restore frames that weren't updated by the first tic
move_restore_dst(mv, i, es) ==
    IF i > Len(mv.slist) THEN mv
    ELSE move_restore_dst(
             move_called(mv, i,
                         IF evspec_matchev(es, mv.slist[i].ev)
                            /\ ~HasTag(mv.slist[i].tag, TAG_COPY)
                         THEN seqptr_restore(mv.d, mv.dp, mv.slist[i])
                         ELSE NotCalled,
                         FALSE, SetTag(mv.slist[i].tag, TAG_COPY)),
             i + 1, es)

RECURSIVE move_cancel_dst(_, _)
\* cancel all copied frames
move_cancel_dst(mv, i) ==
    IF i > Len(mv.slist) THEN mv
    ELSE move_cancel_dst(
             move_called(mv, i, seqptr_cancel(mv.d, mv.dp, mv.slist[i]),
                         FALSE, ClrTag(mv.slist[i].tag, TAG_COPY)),
             i + 1)

\* variant: no frame is restored in src
move_restore_src_none(mv, i) == mv

RECURSIVE move_restore_src(_, _)
\* restore/tag frames that are not tagged
move_restore_src(mv, i) ==
    IF i > Len(mv.slist) THEN mv
    ELSE move_restore_src(
             move_called(mv, i,
                         IF ~HasTag(mv.slist[i].tag, TAG_KEEP)
                         THEN seqptr_restore(mv.t, mv.sp, mv.slist[i])
                         ELSE NotCalled,
                         TRUE, SetTag(mv.slist[i].tag, TAG_KEEP)),
             i + 1)

\* variant: the tics are not put in the copy
move_tics_nodst(mv, x, copy) ==
    [t |-> seqptr_ticput(x.t, x.sp, x.n).t,
     sp |-> seqptr_ticput(x.t, x.sp, x.n).sp,
     d |-> mv.d,
     dp |-> mv.dp,
     slist |-> x.slist]

\* delta = seqptr_ticdel(&sp, max, &slist); if (copy) seqptr_ticput(&dp,
\* delta); seqptr_ticput(&sp, delta): x is what seqptr_ticdel() gave
move_tics(mv, x, copy) ==
    [t |-> seqptr_ticput(x.t, x.sp, x.n).t,
     sp |-> seqptr_ticput(x.t, x.sp, x.n).sp,
     d |-> IF copy THEN seqptr_ticput(mv.d, mv.dp, x.n).t ELSE mv.d,
     dp |-> IF copy THEN seqptr_ticput(mv.d, mv.dp, x.n).sp ELSE mv.dp,
     slist |-> x.slist]

(***************************************************************************)
(* track_check(src): the track is rewritten through sp, slist holds the    *)
(* states of the track as it was and the tag of a state tells whether the  *)
(* events of its frame are put again.                                      *)
(***************************************************************************)
\* the tag of the state of the event taken from the track
check_tag(st) ==
    IF STATE_NEW \in st.flags
    THEN IF STATE_BOGUS \in st.flags THEN 0
         ELSE IF STATE_NESTED \in st.flags THEN 0
         ELSE 1
    ELSE st.tag

\* if (st->tag) { dst = statelist_lookup(&sp.statelist, &st->ev); if (dst
\* == NULL || !state_eq(dst, &st->ev)) seqptr_evput(&sp, &st->ev); }
check_put(e, tag, dst) ==
    IF tag # 0 /\ (dst = 0 \/ ~state_eq(e.sp.statelist[dst], e.slist[e.st].ev))
    THEN seqptr_evput(e.t, e.sp, e.slist[e.st].ev)
    ELSE [t |-> e.t, sp |-> e.sp, st |-> 0]

\* e is what seqptr_evdel() gave, tag the tag of the state, w what
\* check_put() gave
check_store(e, tag, w) ==
    [t |-> w.t, sp |-> w.sp,
     slist |-> [e.slist EXCEPT ![e.st].tag = tag],
     done |-> FALSE]

\* st = seqptr_evdel(&sp, &slist); if (st == NULL) break; ...
check_event(e) ==
    IF e.st = 0
    THEN [t |-> e.t, sp |-> e.sp, slist |-> e.slist, done |-> TRUE]
    ELSE check_store(e, check_tag(e.slist[e.st]),
                     check_put(e, check_tag(e.slist[e.st]),
                               statelist_lookup(e.sp.statelist,
                                                e.slist[e.st].ev)))

\* one turn of the loop of track_check; x is what seqptr_ticdel(&sp, ~0U,
\* &slist) gave and p what seqptr_ticput(&sp, delta) gave
check_turn(x, p) == check_event(seqptr_evdel(p.t, p.sp, TRUE, x.slist))

\* variant: only the first unterminated frame is erased
check_undo_one(t, p, i) ==
    IF i > Len(p.statelist) THEN [t |-> t, sp |-> p, fault |-> FALSE]
    ELSE IF ~ValidPos(t, p, p.statelist[i])
         THEN [t |-> t, sp |-> p, fault |-> TRUE]
         ELSE IF EV_PHASE_LAST \in p.statelist[i].phase
              THEN [t |-> t, sp |-> p, fault |-> FALSE]
              ELSE [t |-> seqptr_rmprev(t, p, i).t,
                    sp |-> seqptr_rmprev(t, p, i).sp,
                    fault |-> FALSE]

RECURSIVE check_undo(_, _, _)
\* undo (erase) all unterminated frames, from state i of sp.statelist on;
\* what seqptr_rmprev() does is not defined if the pos of the state is no
\* cell before the cursor
check_undo(t, p, i) ==
    IF i > Len(p.statelist) THEN [t |-> t, sp |-> p, fault |-> FALSE]
    ELSE IF EV_PHASE_LAST \in p.statelist[i].phase
         THEN check_undo(t, p, i + 1)
         ELSE IF ~ValidPos(t, p, p.statelist[i])
              THEN [t |-> t, sp |-> p, fault |-> TRUE]
              ELSE check_undo(seqptr_rmprev(t, p, i).t,
                              seqptr_rmprev(t, p, i).sp, i)

(***************************************************************************)
(* track_quantize(src, start, len, offset, quant, rate).  q is the record  *)
(* of the arguments and of the locals tic, ofs and notes.                  *)
(***************************************************************************)
\* statelist_dup() followed by st->tag = 0 on every state
quant_dup(sl) ==
    [i \in 1..Len(sl) |-> [statelist_dup(sl)[i] EXCEPT !.tag = 0]]

\* remaind = quant != 0 ? (tic - start + offset) % quant : 0
quant_remaind(q, tic) ==
    IF q.quant # 0
    THEN UMod(UAdd(USub(tic, q.start), q.offset), q.quant)
    ELSE 0

\* the offset of the events of a tic, from the remainder of the tic
quant_ofs(q, remaind) ==
    IF ULess(remaind, UDiv(q.quant, 2))
    THEN USub(0, UDiv(UAdd(UMul(remaind, q.rate), 99), 100))
    ELSE UDiv(UAdd(UMul(USub(q.quant, remaind), q.rate), 99), 100)

\* delta -= ofs; ...; delta += ofs, on unsigned numbers: d is delta less
\* the previous offset.  dbg_panic() if ofs < 0 && delta < (unsigned)-ofs;
\* if not, the sum goes to seqptr_ticput() as it is, wrapped or not
quant_delta(d, ofs) ==
    [panic |-> ofs < 0 /\ ULess(d, USub(0, ofs)),
     delta |-> UAdd(d, ofs)]

\* the tag of the state of an event taken from src in the selection
quant_tag(st) ==
    IF EV_PHASE_FIRST \in st.phase
    THEN IF EV_ISNOTE(st.ev) THEN 1 ELSE 0
    ELSE st.tag

\* the tag of the state of an event taken from src after the selection
quant_tag_tail(st) ==
    IF EV_PHASE_FIRST \in st.phase THEN 0 ELSE st.tag

\* notes++ for each note that starts in the selection
quant_notes(st, notes) ==
    IF EV_PHASE_FIRST \in st.phase /\ EV_ISNOTE(st.ev)
    THEN UAdd(notes, 1)
    ELSE notes

(***************************************************************************)
(* track_transpose(src, start, len, halftones)                             *)
(***************************************************************************)
\* variant: the pitch is not taken modulo 128 at the top of the range
ev_transpose_sat(ev, halftones) ==
    [ev EXCEPT !.b0 = IF (@ % 128) + (halftones % 128) > 127 THEN 127
                      ELSE ((@ % 128) + (halftones % 128)) % 128]

\* ev.data.voice.b0 += halftones; ev.data.voice.b0 &= 0x7f
ev_transpose(ev, halftones) ==
    [ev EXCEPT !.b0 = ((@ % 128) + (halftones % 128)) % 128]

\* the tag of the state of an event taken from src in the selection
trans_tag(st) ==
    IF EV_PHASE_FIRST \in st.phase
    THEN IF EV_ISNOTE(st.ev) THEN 1 ELSE 0
    ELSE st.tag

\* the tag of the state of an event taken from src after the selection
trans_tag_tail(st) ==
    IF EV_PHASE_FIRST \in st.phase THEN 0 ELSE st.tag

\* src and its seqptr (a), the scratch track and its seqptr (q), slist
trans_rec(a, q, slist) ==
    [t |-> a.t, sp |-> a.sp, qt |-> q.t, qp |-> q.sp, slist |-> slist]

\* e is what seqptr_evdel(&sp, &slist) gave, qd the scratch track and its
\* seqptr: the event goes transposed to the scratch track if its frame is
\* tagged, and back to src if not
trans_put(e, qd, tag, halftones) ==
    IF tag # 0
    THEN trans_rec(e, seqptr_evput(qd.t, qd.sp,
                                   ev_transpose(e.slist[e.st].ev, halftones)),
                   [e.slist EXCEPT ![e.st].tag = tag])
    ELSE trans_rec(seqptr_evput(e.t, e.sp, e.slist[e.st].ev), qd,
                   [e.slist EXCEPT ![e.st].tag = tag])

(***************************************************************************)
(* Tempo and measures.  The defaults are those of default.h, which is not  *)
(* part of the sources at hand: 4 beats of 24 tics, 120 beats per minute.  *)
(***************************************************************************)
DEFAULT_BPM == 4
DEFAULT_TPB == 24
DEFAULT_USEC24 == 500000

\* [st |-> the state of the time signature or 0, bpm, tpb]
seqptr_getsign(sp) ==
    LET st == statelist_lookup(sp.statelist, TimeSig(0, 0))
    IN [st |-> st,
        bpm |-> IF st = 0 THEN DEFAULT_BPM ELSE sp.statelist[st].ev.b0,
        tpb |-> IF st = 0 THEN DEFAULT_TPB ELSE sp.statelist[st].ev.b1]

\* [st |-> the state of the tempo or 0, usec24]
seqptr_gettempo(sp) ==
    LET st == statelist_lookup(sp.statelist, Tempo(0))
    IN [st |-> st,
        usec24 |-> IF st = 0 THEN DEFAULT_USEC24 ELSE sp.statelist[st].ev.b0]

\* variant: the measures that are left are not counted at end-of-track
skipmeasure_left_none(meas, m, tics_per_meas, k) ==
    [t |-> k.t, sp |-> k.sp, n |-> k.n]

\* return (meas - m - 1) * tics_per_meas + delta; k is what seqptr_skip gave
skipmeasure_left(meas, m, tics_per_meas, k) ==
    [t |-> k.t, sp |-> k.sp,
     n |-> UAdd(UMul(USub(USub(meas, m), 1), tics_per_meas), k.n)]

RECURSIVE skipmeasure_from(_, _, _, _)
RECURSIVE skipmeasure_step(_, _, _, _)
\* the turn m of the loop of seqptr_skipmeasure, sp1 being the seqptr after
\* the events of the tic were read
skipmeasure_step(meas, m, tics_per_meas, k) ==
    IF k.n # 0 THEN skipmeasure_left(meas, m, tics_per_meas, k)
    ELSE skipmeasure_from(k.t, k.sp, meas, UAdd(m, 1))

skipmeasure_tics(sp) ==
    UMul(seqptr_getsign(sp).bpm, seqptr_getsign(sp).tpb)

skipmeasure_turn(t, sp1, meas, m) ==
    skipmeasure_step(meas, m, skipmeasure_tics(sp1),
                     seqptr_skip(t, sp1, skipmeasure_tics(sp1)))

skipmeasure_from(t, sp, meas, m) ==
    IF ~ULess(m, meas) THEN [t |-> t, sp |-> sp, n |-> 0]
    ELSE skipmeasure_turn(t, seqptr_getall(t, sp), meas, m)

\* n: the number of tics remaining until the requested measure
seqptr_skipmeasure(t, sp, meas) == skipmeasure_from(t, sp, meas, 0)

\* tic = seqptr_skipmeasure(&sp, m); tic += sp.tic
track_findmeasure(t, m) ==
    UAdd(seqptr_skipmeasure(t, seqptr_init(t), m).n,
         seqptr_skipmeasure(t, seqptr_init(t), m).sp.tic)

\* the value that the caller of track_timeinfo left in *abs
AbsUnset == -1

\* k is what seqptr_skipmeasure gave and sp the seqptr after the events of
\* the tic were read; abs is *abs: if (tic) *abs = tic
timeinfo_out(k, sp, abs) ==
    [t |-> k.t,
     abs |-> IF UAdd(k.n, k.sp.tic) # 0 THEN UAdd(k.n, k.sp.tic) ELSE abs,
     bpm |-> seqptr_getsign(sp).bpm,
     tpb |-> seqptr_getsign(sp).tpb,
     usec24 |-> seqptr_gettempo(sp).usec24]

timeinfo_walk(k, abs) == timeinfo_out(k, seqptr_getall(k.t, k.sp), abs)

track_timeinfo(t, meas, abs) ==
    timeinfo_walk(seqptr_skipmeasure(t, seqptr_init(t), meas), abs)

(***************************************************************************)
(* track_confev(src, ev)                                                   *)
(***************************************************************************)
\* variant: the search takes the state with the largest tag
confev_next_last(sl, tagmin, i, st, tag) ==
    IF Len(sl) = 0 THEN [st |-> 0, tag |-> tag]
    ELSE [st |-> CHOOSE k \in 1..Len(sl) :
                    \A j \in 1..Len(sl) : sl[j].tag <= sl[k].tag,
          tag |-> tag - 1]

RECURSIVE confev_next(_, _, _, _, _)
\* find the next state with tag >= tagmin: the scan of slist from state i
\* on, st and tag being the state found so far (0 for NULL) and its tag
confev_next(sl, tagmin, i, st, tag) ==
    IF i > Len(sl) THEN [st |-> st, tag |-> tag]
    ELSE IF sl[i].tag >= tagmin /\ sl[i].tag < tag
         THEN confev_next(sl, tagmin, i + 1, i, sl[i].tag)
         ELSE confev_next(sl, tagmin, i + 1, st, tag)

RECURSIVE confev_restore(_, _, _)
\* put the events rev that restore a state, unless the state of sp already
\* has the event
confev_restore(t, sp, rev) ==
    IF rev = <<>> THEN [t |-> t, sp |-> sp]
    ELSE IF statelist_lookup(sp.statelist, Head(rev)) # 0
            /\ state_eq(sp.statelist[statelist_lookup(sp.statelist,
                                                      Head(rev))],
                        Head(rev))
         THEN confev_restore(t, sp, Tail(rev))
         ELSE confev_restore(seqptr_evput(t, sp, Head(rev)).t,
                             seqptr_evput(t, sp, Head(rev)).sp, Tail(rev))

(***************************************************************************)
(* track_settempo(t, measure, tempo)                                       *)
(***************************************************************************)
\* TEMPO_TO_USEC24(tempo, tpb) of default.h: 60 seconds of 24000000
\* microseconds per 24 tics, by tempo * tpb tics
TEMPO_TO_USEC24(tempo, tpb) == 1440000000 \div (tempo * tpb)

\* what st->ev.data.tempo.usec24 reads in an event that is not a tempo:
\* the bytes of another member of the union, which may be any number,
\* that of a tempo of the track or not
PunNoTempo == 0

settempo_pun(ev, tempos) ==
    IF ev.cmd = "TEMPO" THEN {ev.b0} ELSE tempos \cup {PunNoTempo}

\* the event is put back: it is no tempo, or not the tempo usec24
settempo_keep(ev, usec24) == ev.cmd # "TEMPO" \/ ev.b0 # usec24

(***************************************************************************)
(* track_timeins(t, measure, amount, bpm, tpb)                             *)
(***************************************************************************)
\* variant: the signatures always differ
timeins_differs_any(bpm, tpb, save_bpm, save_tpb) == TRUE

\* bpm != save_bpm || tpb != save_tpb, and the same test on an event
timeins_differs(bpm, tpb, save_bpm, save_tpb) ==
    bpm # save_bpm \/ tpb # save_tpb

\* event ev is put at the cursor if the two signatures differ
timeins_sign(differs, t, sp, ev) ==
    IF differs
    THEN seqptr_evput(t, sp, ev)
    ELSE [t |-> t, sp |-> sp, st |-> 0]

(***************************************************************************)
(* track_timerm(t, measure, amount)                                        *)
(***************************************************************************)
\* variant: the event is always put
timerm_differs_any(sl, ev) == TRUE

\* !ost || !state_eq(ost, &st->ev), ost being the state of the event in sl
timerm_differs(sl, ev) ==
    \/ statelist_lookup(sl, ev) = 0
    \/ ~state_eq(sl[statelist_lookup(sl, ev)], ev)

\* the event is put at the cursor if the state of the cursor differs
timerm_put(t, sp, ev) ==
    IF timerm_differs(sp.statelist, ev)
    THEN seqptr_evput(t, sp, ev)
    ELSE [t |-> t, sp |-> sp, st |-> 0]

\* every state of the list is tagged
timerm_tagall(sl) == [i \in 1..Len(sl) |-> [sl[i] EXCEPT !.tag = 1]]

\* the states from i on that are not tagged are restored and tagged
RECURSIVE timerm_restore(_, _, _, _)
timerm_restore(t, sp, sl, i) ==
    IF i > Len(sl)
    THEN [t |-> t, sp |-> sp, slist |-> sl]
    ELSE IF sl[i].tag = 0
         THEN LET w == timerm_put(t, sp, sl[i].ev)
              IN timerm_restore(w.t, w.sp, [sl EXCEPT ![i].tag = 1], i + 1)
         ELSE timerm_restore(t, sp, sl, i + 1)

(***************************************************************************)
(* Spec: one seqptr on one track, driven by any sequence of primitives.    *)
(*   track  the cells of the track                                         *)
(*   sp     the seqptr: pos, delta, tic and its statelist                  *)
(*   slist  the state list handed to seqptr_evdel() and seqptr_ticdel()    *)
(*   last   the primitive called last and what it returned                 *)
(*   fault  a primitive followed a pointer that is unset or dangling       *)
(*   steps  the number of primitives called so far                         *)
(*   org, rd, src  used by the other specifications                        *)
(***************************************************************************)
VARIABLES track, sp, slist, last, fault, steps, org, rd, src

vars == <<track, sp, slist, last, fault, steps, org, rd, src>>

Events == {NoteOn(60, 100), NoteOff(60), Ctl(7, 64), Ctl(7, 0), Prog(5)}

\* the tracks of n events with deltas up to d
TracksOf(evs, n, d) ==
    {body \o <<Cell(e, NullEv)>> :
        body \in [1..n -> {Cell(x, ev) : x \in 0..d, ev \in evs}],
        e \in 0..d}

InitTracks ==
    {t \in UNION {TracksOf(Events, n, MaxDelta) : n \in 0..MaxInitEv} :
        TrackLength(t) <= MaxLength}

NoOp == [op |-> "init", ret |-> 0]

Init ==
    /\ track \in InitTracks
    /\ sp = seqptr_init(track)
    /\ slist = <<>>
    /\ last = NoOp
    /\ fault = FALSE
    /\ steps = 0
    /\ org = <<>>
    /\ rd = seqptr_init(<<>>)
    /\ src = <<>>

\* the seqptr can be used: nothing went wrong and seqptr_done() has not
\* released it
Usable == ~fault /\ sp.pos # Dangling

\* one more primitive is called, nothing faults
Others ==
    /\ steps < MaxSteps
    /\ steps' = steps + 1
    /\ UNCHANGED <<fault, org, rd, src>>

EvGet ==
    /\ Usable
    /\ LET r == seqptr_evget(track, sp)
       IN /\ track' = r.t
          /\ sp' = r.sp
          /\ last' = [op |-> "evget", ret |-> r.st]
    /\ UNCHANGED slist
    /\ Others

EvPut(ev) ==
    /\ Usable
    /\ NumEvents(track) < MaxEvents
    /\ LET r == seqptr_evput(track, sp, ev)
       IN /\ track' = r.t
          /\ sp' = r.sp
          /\ last' = [op |-> "evput", ret |-> r.st]
    /\ UNCHANGED slist
    /\ Others

EvDel(has) ==
    /\ Usable
    /\ LET r == seqptr_evdel(track, sp, has, slist)
       IN /\ track' = r.t
          /\ sp' = r.sp
          /\ slist' = r.slist
          /\ last' = [op |-> "evdel", ret |-> r.st]
    /\ Others

TicSkip(max) ==
    /\ Usable
    /\ LET r == seqptr_ticskip(track, sp, max)
       IN /\ track' = r.t
          /\ sp' = r.sp
          /\ last' = [op |-> "ticskip", ret |-> r.n]
    /\ UNCHANGED slist
    /\ Others

TicDel(max, has) ==
    /\ Usable
    /\ LET r == seqptr_ticdel(track, sp, max, has, slist)
       IN /\ track' = r.t
          /\ sp' = r.sp
          /\ slist' = r.slist
          /\ last' = [op |-> "ticdel", ret |-> r.n]
    /\ Others

TicPut(n) ==
    /\ Usable
    /\ TrackLength(track) + n <= MaxLength
    /\ LET r == seqptr_ticput(track, sp, n)
       IN /\ track' = r.t
          /\ sp' = r.sp
          /\ last' = [op |-> "ticput", ret |-> 0]
    /\ UNCHANGED slist
    /\ Others

\* the states a caller can hand to seqptr_cancel() and seqptr_restore()
AnyState == {sp.statelist[k] : k \in 1..Len(sp.statelist)}
            \cup {slist[k] : k \in 1..Len(slist)}

Cancel(st) ==
    /\ Usable
    /\ NumEvents(track) < MaxEvents
    /\ LET r == seqptr_cancel(track, sp, st)
       IN /\ track' = r.t
          /\ sp' = r.sp
          /\ last' = [op |-> "cancel", ret |-> r.ret]
    /\ UNCHANGED slist
    /\ Others

Restore(st) ==
    /\ Usable
    /\ NumEvents(track) < MaxEvents
    /\ LET r == seqptr_restore(track, sp, st)
       IN /\ track' = r.t
          /\ sp' = r.sp
          /\ last' = [op |-> "restore", ret |-> r.ret]
    /\ UNCHANGED slist
    /\ Others

RmLast(k) ==
    /\ Usable
    /\ ValidPos(track, sp, sp.statelist[k])
    /\ LET r == seqptr_rmlast(track, sp, k)
       IN /\ track' = r.t
          /\ sp' = r.sp
          /\ last' = [op |-> "rmlast", ret |-> r.st]
    /\ UNCHANGED slist
    /\ Others

RmPrev(k) ==
    /\ Usable
    /\ ValidPos(track, sp, sp.statelist[k])
    /\ LET r == seqptr_rmprev(track, sp, k)
       IN /\ track' = r.t
          /\ sp' = r.sp
          /\ last' = [op |-> "rmprev", ret |-> r.st]
    /\ UNCHANGED slist
    /\ Others

\* seqptr_rmlast() or seqptr_rmprev() of a state whose pos is unset or
\* dangling reads a cell that is not there.  What the call does then is
\* not defined: the run ends here, and track and sp, left as they were,
\* say nothing of the memory of the program
RmFault(k) ==
    /\ Usable
    /\ ~ValidPos(track, sp, sp.statelist[k])
    /\ steps < MaxSteps
    /\ steps' = steps + 1
    /\ fault' = TRUE
    /\ last' = [op |-> "rmfault", ret |-> 0]
    /\ UNCHANGED <<track, sp, slist, org, rd, src>>

\* the seqptr is released, no primitive is called on it afterwards
Done ==
    /\ Usable
    /\ sp' = seqptr_done(sp)
    /\ last' = [op |-> "done", ret |-> 0]
    /\ UNCHANGED <<track, slist>>
    /\ Others

Next ==
    \/ Done
    \/ EvGet
    \/ \E ev \in Events : EvPut(ev)
    \/ EvDel(FALSE)
    \/ \E max \in 0..(MaxDelta + 1) : TicSkip(max)
    \/ \E max \in 0..(MaxDelta + 1) : TicDel(max, FALSE)
    \/ \E n \in 0..MaxDelta : TicPut(n)
    \/ \E st \in AnyState : Cancel(st)
    \/ \E st \in AnyState : Restore(st)
    \/ \E k \in 1..Len(sp.statelist) : RmLast(k)
    \/ \E k \in 1..Len(sp.statelist) : RmPrev(k)
    \/ \E k \in 1..Len(sp.statelist) : RmFault(k)

Spec == Init /\ [][Next]_vars

TypeOK ==
    /\ WellFormed(track)
    /\ sp.pos \in 1..Len(track) \/ sp = seqptr_done(sp)

(***************************************************************************)
(* Reading a track from its beginning with a fresh seqptr, up to the cell  *)
(* pos and delta tics into its blank space: seqptr_evget() on every event  *)
(* and one seqptr_ticskip() over every blank space on the way.             *)
(***************************************************************************)
RECURSIVE ReadUpTo(_, _, _, _)
ReadUpTo(t, c, pos, delta) ==
    IF c.pos < pos
    THEN IF seqptr_evavail(t, c)
         THEN ReadUpTo(t, seqptr_evget(t, c).sp, pos, delta)
         ELSE ReadUpTo(t, seqptr_ticskip(t, c, t[c.pos].delta - c.delta).sp,
                       pos, delta)
    ELSE IF c.delta < delta
         THEN seqptr_ticskip(t, c, delta - c.delta).sp
         ELSE c

FreshRead(t, pos, delta) == ReadUpTo(t, seqptr_init(t), pos, delta)

\* what a state list says of the frames: the fields statelist_dup() copies
Frames(sl) ==
    {[ev |-> sl[k].ev, phase |-> sl[k].phase,
      flags |-> sl[k].flags \cap {STATE_BOGUS, STATE_NESTED}] :
        k \in 1..Len(sl)}

\* C1: after any sequence of primitives the statelist of the seqptr equals
\* the statelist of a fresh seqptr that read the resulting track up to the
\* same position (same cell, same delta)
C1_StateInvariant ==
    Frames(sp.statelist) = Frames(FreshRead(track, sp.pos, sp.delta).statelist)

RECURSIVE Without(_, _, _)
\* the elements of seq from index i on whose index is not in M, in order
Without(seq, M, i) ==
    IF i > Len(seq) THEN <<>>
    ELSE (IF i \in M THEN <<>> ELSE <<seq[i]>>) \o Without(seq, M, i + 1)

MaxOf(S) == CHOOSE x \in S : \A y \in S : y <= x

\* the cells of st's frame from st.pos up to the cursor
FrameCells(t, c, st) ==
    {i \in st.pos..(c.pos - 1) : state_match(st, t[i].ev)}

\* C2: the seqptr never stands further in a blank space than the space is
\* long, and no delta ever underflows (as long as no call has followed a
\* pointer to no cell: nothing is known of the track after that; and until
\* seqptr_done() releases the seqptr, which ends the sequence of primitives)
C2_DeltaInvariant ==
    \/ fault
    \/ /\ sp.pos = Dangling
       /\ \A i \in 1..Len(track) : track[i].delta >= 0
    \/ /\ sp.delta >= 0
       /\ sp.delta <= track[sp.pos].delta
       /\ \A i \in 1..Len(track) : track[i].delta >= 0

\* seqptr_evput() in the middle of a blank space of 2 tics
C2_Witness ==
    /\ last.op = "evput"
    /\ sp.pos > 1
    /\ track[sp.pos - 1].delta > 0
    /\ track[sp.pos].delta > 0

\* C3: the track stays a list closed by the sentinel, seqptr_ticput(n)
\* makes it n tics longer, seqptr_ticdel() shorter by what it returns and
\* no other primitive changes its length
C3_TrackLength ==
    [][~fault' =>
         /\ WellFormed(track')
         /\ \A n \in 0..MaxDelta :
              TicPut(n) => TrackLength(track') = TrackLength(track) + n
         /\ last'.op = "ticdel" =>
              TrackLength(track') = TrackLength(track) - last'.ret
         /\ last'.op \notin {"ticput", "ticdel"} =>
              TrackLength(track') = TrackLength(track)]_vars

\* seqptr_rmprev() has donated the delta of the removed cells
C3_Witness ==
    /\ last.op = "rmprev"
    /\ Len(track) = 1
    /\ track[1].delta = MaxLength

\* C4: seqptr_evput(ev) links one cell carrying ev before the cursor's
\* cell, at tic sp.tic; the other events keep their tic, the seqptr is on
\* the same cell with delta 0 and the same tic, and its statelist is the
\* one seqptr_evget() gives when it reads the new cell
C4_EvPut ==
    [][\A ev \in Events : EvPut(ev) =>
         /\ Len(track') = Len(track) + 1
         /\ track'[sp.pos].ev = ev
         /\ SumDelta(track', sp.pos) = sp.tic
         /\ RemoveAt(EvTics(track'), sp.pos) = EvTics(track)
         /\ TrackLength(track') = TrackLength(track)
         /\ sp'.pos = sp.pos + 1
         /\ sp'.delta = 0
         /\ sp'.tic = sp.tic
         /\ sp' = seqptr_evget(track',
                               [sp EXCEPT !.delta = track'[sp.pos].delta]).sp
         /\ last'.ret = statelist_lookup(sp'.statelist, ev)]_vars

\* an event was put in the middle of a track, inside a blank space
C4_Witness ==
    /\ last.op = "evput"
    /\ sp.pos > 1
    /\ sp.pos < Len(track)
    /\ track[sp.pos - 1].delta > 0
    /\ Len(sp.statelist) > 1

\* C7: seqptr_cancel() and seqptr_restore() return 1 exactly when they put
\* an event on the track; for a note state and for a terminated state
\* they return 0 and leave the track and the seqptr as they are.  The
\* return value does not depend on the number of events: seqptr_restore()
\* of a BOGUS state of a controller that seqptr_rmlast() has set back to
\* the phase NEXT returns 1 and puts nothing.
C7_CancelRestore ==
    [][\A st \in AnyState : (Cancel(st) \/ Restore(st)) =>
         /\ (last'.ret = 1) <=> (Len(track') > Len(track))
         /\ (EV_ISNOTE(st.ev) \/ EV_PHASE_LAST \in st.phase) =>
               /\ last'.ret = 0
               /\ track' = track
               /\ sp' = sp]_vars

\* C8: seqptr_rmlast(st) unlinks the last cell of st's frame before the
\* cursor and gives its delta to the next cell, tics and length stay; the
\* state goes away with the only event of its frame, else it goes back to
\* the previous event of the frame
C8_RmLast ==
    [][\A k \in 1..Len(sp.statelist) : RmLast(k) =>
         LET st == sp.statelist[k]
             M == FrameCells(track, sp, st)
             c == MaxOf(M)
         IN /\ Len(track') = Len(track) - 1
            /\ \A i \in 1..Len(track') :
                  track'[i].ev = track[IF i < c THEN i ELSE i + 1].ev
            /\ track'[c].delta = track[c].delta + track[c + 1].delta
            /\ EvTics(track') = RemoveAt(EvTics(track), c)
            /\ TrackLength(track') = TrackLength(track)
            /\ sp'.tic = sp.tic
            /\ sp'.pos = sp.pos - 1
            /\ sp'.delta = IF c + 1 = sp.pos
                           THEN sp.delta + track[c].delta
                           ELSE sp.delta
            /\ IF M = {c}
               THEN /\ last'.ret = 0
                    /\ Len(sp'.statelist) = Len(sp.statelist) - 1
                    /\ \A j \in 1..Len(sp'.statelist) :
                          sp'.statelist[j].ev =
                             sp.statelist[IF j < k THEN j ELSE j + 1].ev
               ELSE LET p == MaxOf(M \ {c})
                    IN /\ last'.ret = k
                       /\ Len(sp'.statelist) = Len(sp.statelist)
                       /\ sp'.statelist[k].ev = track[p].ev
                       /\ sp'.statelist[k].phase =
                             IF p = st.pos THEN {EV_PHASE_FIRST}
                             ELSE {EV_PHASE_NEXT}]_vars

\* the last event of a frame of two went away, the state is back on the
\* first one
C8_Witness ==
    /\ last.op = "rmlast"
    /\ last.ret > 0
    /\ sp.statelist[last.ret].phase = {EV_PHASE_FIRST}
    /\ sp.delta > 0

\* C9: seqptr_rmprev(st) unlinks every cell of st's frame from st.pos to
\* the cursor and drops the state; tics, length and the other events stay
C9_RmPrev ==
    [][\A k \in 1..Len(sp.statelist) : RmPrev(k) =>
         LET st == sp.statelist[k]
             M == FrameCells(track, sp, st)
         IN /\ track'
                 \in {t \in {track'} :
                        /\ Len(t) = Len(track) - Cardinality(M)
                        /\ \A i \in st.pos..(sp'.pos - 1) :
                              ~state_match(st, t[i].ev)}
            /\ sp'.pos = sp.pos - Cardinality(M)
            /\ EvTics(track') = Without(EvTics(track), M, 1)
            /\ TrackLength(track') = TrackLength(track)
            /\ sp'.tic = sp.tic
            /\ last'.ret = 0
            /\ Len(sp'.statelist) = Len(sp.statelist) - 1
            /\ \A j \in 1..Len(sp'.statelist) :
                  sp'.statelist[j].ev =
                     sp.statelist[IF j < k THEN j ELSE j + 1].ev]_vars

\* a frame of two events was removed, another event stays before the
\* cursor
C9_Witness ==
    /\ last.op = "rmprev"
    /\ Len(track) = 2
    /\ sp.pos = 2
    /\ EV_ISNOTE(track[1].ev)

(***************************************************************************)
(* SpecErase: the erasing idiom of the editors.  The seqptr first reads    *)
(* some way into the track; then the erase list is made with               *)
(* statelist_dup() and the rest is consumed with seqptr_evdel() and        *)
(* seqptr_ticdel().  org is the track as it was when erasing began and rd  *)
(* a seqptr that reads org, one seqptr_evget() per seqptr_evdel() and one  *)
(* seqptr_ticskip(max) per seqptr_ticdel(max); it starts where sp is, with *)
(* a statelist_dup() of sp's list as well.  org = <<>> until then.         *)
(***************************************************************************)
ReadEv ==
    /\ org = <<>>
    /\ EvGet

ReadTic(max) ==
    /\ org = <<>>
    /\ TicSkip(max)

StartErase ==
    /\ org = <<>>
    /\ steps < MaxSteps
    /\ steps' = steps + 1
    /\ org' = track
    /\ rd' = [sp EXCEPT !.statelist = statelist_dup(@)]
    /\ slist' = statelist_dup(sp.statelist)
    /\ last' = [op |-> "dup", ret |-> 0]
    /\ UNCHANGED <<track, sp, fault, src>>

EraseEv ==
    /\ org # <<>>
    /\ steps < MaxSteps
    /\ steps' = steps + 1
    /\ LET r == seqptr_evdel(track, sp, TRUE, slist)
           g == seqptr_evget(org, rd)
       IN /\ track' = r.t
          /\ sp' = r.sp
          /\ slist' = r.slist
          /\ rd' = g.sp
          /\ last' = [op |-> "evdel", ret |-> r.st]
    /\ UNCHANGED <<fault, org, src>>

EraseTic(max) ==
    /\ org # <<>>
    /\ steps < MaxSteps
    /\ steps' = steps + 1
    /\ LET r == seqptr_ticdel(track, sp, max, TRUE, slist)
           g == seqptr_ticskip(org, rd, max)
       IN /\ track' = r.t
          /\ sp' = r.sp
          /\ slist' = r.slist
          /\ rd' = g.sp
          /\ last' = [op |-> "ticdel", ret |-> r.n]
    /\ UNCHANGED <<fault, org, src>>

NextErase ==
    \/ ReadEv
    \/ \E max \in 1..MaxDelta : ReadTic(max)
    \/ StartErase
    \/ EraseEv
    \/ \E max \in 0..(MaxDelta + 1) : EraseTic(max)

SpecErase == Init /\ [][NextErase]_vars

\* C5: seqptr_evdel() with no event at the cursor returns NULL and changes
\* nothing; else it unlinks the cursor's cell and gives its delta to the
\* next one, the seqptr keeps tic, delta and statelist, the other events
\* keep their tic, and the erase list is updated with the event
C5_EvDel ==
    [][last'.op = "evdel" =>
         IF ~seqptr_evavail(track, sp)
         THEN /\ last'.ret = 0
              /\ track' = track
              /\ sp' = sp
              /\ slist' = slist
         ELSE /\ Len(track') = Len(track) - 1
              /\ \A i \in 1..Len(track') :
                    track'[i].ev = track[IF i < sp.pos THEN i ELSE i + 1].ev
              /\ track'[sp.pos].delta =
                    track[sp.pos].delta + track[sp.pos + 1].delta
              /\ EvTics(track') = RemoveAt(EvTics(track), sp.pos)
              /\ TrackLength(track') = TrackLength(track)
              /\ sp' = sp
              /\ slist' = statelist_update(slist, track[sp.pos].ev).sl
              /\ last'.ret = statelist_lookup(slist', track[sp.pos].ev)]_vars

\* an event that follows a blank space and another event was deleted, its
\* state is in the erase list
C5_Witness ==
    /\ last.op = "evdel"
    /\ last.ret > 0
    /\ sp.delta > 0
    /\ sp.pos > 1
    /\ track[sp.pos].delta > sp.delta

\* C6: while a track is erased with seqptr_evdel() and seqptr_ticdel(),
\* the erase list holds the states a seqptr holds that reads the same
\* events and tics of the track as it was
C6_EraseList ==
    org # <<>> => Frames(slist) = Frames(rd.statelist)

(***************************************************************************)
(* SpecMerge: track_merge(dst, src) of two consistent tracks, one step of  *)
(* its loops at a time.  track is dst and sp the seqptr pd that rewrites   *)
(* it, rd is the seqptr p2 that reads src, slist is orglist, org keeps dst *)
(* as it was.  last.op tells where track_merge stands:                     *)
(*   "merge_dst"   in the first inner loop (events of dst at this tic)     *)
(*   "merge_src"   in the second inner loop (events of src at this tic)    *)
(*   "merge_tics"  after the inner loops, about to move to the next tic    *)
(*   "merged"      track_merge has returned                                *)
(***************************************************************************)
MergeEvents ==
    {NoteOn(60, 100), NoteOn(60, 50), NoteOff(60), Ctl(7, 64), Ctl(7, 0)}

MergeTracks ==
    {t \in UNION {TracksOf(MergeEvents, n, MaxMergeDelta) :
                     n \in 0..MaxMergeEv} : Consistent(t)}

At(op) == [op |-> op, ret |-> 0]

\* the tracks of the merge of a note C4 with a later note E4 that overlaps
\* it: dst = [0: NoteOn C4; 480: NoteOff C4], src = [240: NoteOn E4; 720:
\* NoteOff E4]
S4Dst ==
    <<Cell(0, NoteOn(60, 100)), Cell(480, NoteOff(60)), Cell(0, NullEv)>>

S4Src ==
    <<Cell(240, NoteOn(64, 100)), Cell(480, NoteOff(64)), Cell(0, NullEv)>>

InitMerge ==
    /\ \E p \in (MergeTracks \X MergeTracks) \cup {<<S4Dst, S4Src>>} :
          track = p[1] /\ src = p[2]
    /\ org = track
    /\ sp = seqptr_init(track)
    /\ rd = seqptr_init(src)
    /\ slist = <<>>
    /\ last = At("merge_dst")
    /\ fault = FALSE
    /\ steps = 0

\* the merge record of the variables, and back
MergeRec == [t |-> track, pd |-> sp, p2 |-> rd, orglist |-> slist,
             fault |-> FALSE]

MergeSet(m) ==
    /\ track' = m.t
    /\ sp' = m.pd
    /\ rd' = m.p2
    /\ slist' = m.orglist
    /\ fault' = m.fault

\* s1 = seqptr_evdel(&pd, &orglist); if (s1 == NULL) break; ...
MergeDst ==
    /\ last.op = "merge_dst"
    /\ ~fault
    /\ LET r == seqptr_evdel(track, sp, TRUE, slist)
           m == [MergeRec EXCEPT !.t = r.t, !.pd = r.sp, !.orglist = r.slist]
           s2 == statelist_lookup(rd.statelist, r.slist[r.st].ev)
       IN IF r.st = 0
          THEN /\ last' = [last EXCEPT !.op = "merge_src"]
               /\ UNCHANGED <<track, sp, rd, slist, fault>>
          ELSE /\ MergeSet(seqptr_evmerge1(m, r.st, s2))
               /\ UNCHANGED last
    /\ UNCHANGED <<steps, org, src>>

\* s2 = seqptr_evget(&p2); if (s2 == NULL) break; ...
MergeSrc ==
    /\ last.op = "merge_src"
    /\ ~fault
    /\ LET r == seqptr_evget(src, rd)
           m == [MergeRec EXCEPT !.p2 = r.sp]
           s1 == statelist_lookup(slist, r.sp.statelist[r.st].ev)
       IN IF r.st = 0
          THEN /\ last' = [last EXCEPT !.op = "merge_tics"]
               /\ UNCHANGED <<track, sp, rd, slist, fault>>
          ELSE /\ MergeSet(seqptr_evmerge2(m, s1, r.st))
               /\ UNCHANGED last
    /\ UNCHANGED <<steps, org, src>>

\* move to the next non empty tic, or leave the loop and track_chomp(dst)
MergeTics ==
    /\ last.op = "merge_tics"
    /\ ~fault
    /\ LET delta1 == USub(track[sp.pos].delta, sp.delta)
           delta2 == USub(src[rd.pos].delta, rd.delta)
           deltad == IF delta1 # 0
                     THEN IF delta2 # 0 /\ ULess(delta2, delta1) THEN delta2
                          ELSE delta1
                     ELSE delta2
           k == seqptr_ticskip(src, rd, deltad)
           d == seqptr_ticdel(track, sp, deltad, TRUE, slist)
           p == seqptr_ticput(d.t, d.sp, deltad)
       IN IF delta1 = 0 /\ delta2 = 0
          THEN /\ track' = track_chomp(track)
               /\ last' = [last EXCEPT !.op = "merged"]
               /\ UNCHANGED <<sp, rd, slist>>
          ELSE /\ track' = p.t
               /\ sp' = p.sp
               /\ rd' = k.sp
               /\ slist' = d.slist
               /\ last' = [last EXCEPT !.op = "merge_dst"]
    /\ UNCHANGED <<steps, org, src, fault>>

NextMerge == MergeDst \/ MergeSrc \/ MergeTics

SpecMerge == InitMerge /\ [][NextMerge]_vars

\* C10: after track_merge() of two consistent tracks dst is consistent: a
\* read of dst meets no bogus event, no nested event, and every frame is
\* terminated at the end
C10_MergeConsistent ==
    last.op = "merged" => Consistent(track)

\* a seqptr that read t from the start up to tic T, the events at T included
ReadThrough(t, T) ==
    seqptr_getall(t, seqptr_skip(t, seqptr_init(t), T).sp)

\* the state is one of a frame that is there and is not terminated
Live(st) == ~IsBogus(st) /\ EV_PHASE_LAST \notin st.phase

\* the list has a state of the frame of ev and its event is val
Carries(sl, ev, val) ==
    /\ statelist_lookup(sl, ev) # 0
    /\ sl[statelist_lookup(sl, ev)].ev = val

\* src has the priority at tic T: the frames of src that are live at T have
\* the value of src in dst
SrcWins(d, s, T) ==
    \A k \in 1..Len(ReadThrough(s, T).statelist) :
        Live(ReadThrough(s, T).statelist[k]) =>
            Carries(ReadThrough(d, T).statelist,
                    ReadThrough(s, T).statelist[k].ev,
                    ReadThrough(s, T).statelist[k].ev)

\* a frame of src ends at tic T while the frame of the original dst o is
\* live: dst has the value of o again
DstResumes(d, o, s, T) ==
    \A k \in 1..Len(ReadThrough(s, T).statelist) :
        \A j \in 1..Len(ReadThrough(o, T).statelist) :
            /\ ~IsBogus(ReadThrough(s, T).statelist[k])
            /\ EV_PHASE_LAST \in ReadThrough(s, T).statelist[k].phase
            /\ state_match(ReadThrough(o, T).statelist[j],
                           ReadThrough(s, T).statelist[k].ev)
            /\ Live(ReadThrough(o, T).statelist[j])
            => Carries(ReadThrough(d, T).statelist,
                       ReadThrough(o, T).statelist[j].ev,
                       ReadThrough(o, T).statelist[j].ev)

\* C11: after track_merge(dst, src) of two consistent tracks, at every tic
\* where src has a live frame dst read up to that tic has the state of the
\* frame with the value of src, and at the tic where the frame of src ends
\* the frame of the original dst, if it is live, is in dst again
C11_MergePriority ==
    last.op = "merged" =>
        \A T \in 0..TrackLength(src) :
            SrcWins(track, src, T) /\ DstResumes(track, org, src, T)

\* a merge where a note of src of velocity 100 covers the start of a note
\* of dst of velocity 50 that outlasts it
C11_Witness ==
    /\ last.op = "merged"
    /\ \E T \in 0..TrackLength(src) :
          /\ Carries(ReadThrough(src, T).statelist, NoteOn(60, 100),
                     NoteOn(60, 100))
          /\ Carries(ReadThrough(org, T).statelist, NoteOn(60, 50),
                     NoteOn(60, 50))
          /\ Carries(ReadThrough(src, T + 1).statelist, NoteOff(60),
                     NoteOff(60))
          /\ Carries(ReadThrough(org, T + 1).statelist, NoteOn(60, 50),
                     NoteOn(60, 50))
          /\ Carries(ReadThrough(track, T).statelist, NoteOn(60, 100),
                     NoteOn(60, 100))
          /\ Carries(ReadThrough(track, T + 1).statelist, NoteOn(60, 50),
                     NoteOn(60, 50))

\* C12: track_merge(t, src) of a consistent track t with a src that has no
\* event leaves the events of t and their deltas as they were; the blank
\* space at the end of t is removed by track_chomp()
C12_MergeEmpty ==
    last.op = "merged" /\ NumEvents(src) = 0 => track = track_chomp(org)

\* C12 as stated: track_merge(t, empty) leaves t unchanged, the delta of the
\* sentinel included
C12_MergeEmptyUnchanged ==
    last.op = "merged" /\ src = <<Cell(0, NullEv)>> => track = org

\* a track of two events and a blank space at its end merged with a track
\* without events
C12_Witness ==
    /\ last.op = "merged"
    /\ NumEvents(src) = 0
    /\ NumEvents(org) = 2
    /\ org[Len(org)].delta > 0
    /\ org[2].delta > 0

\* C13: merging src = [240: NoteOn E4; 720: NoteOff E4] into dst = [0:
\* NoteOn C4; 480: NoteOff C4] gives NoteOn C4@0, NoteOn E4@240, NoteOff
\* C4@480, NoteOff E4@720: the two notes are frames of their own and the
\* C4 note is left as it was
C13_MergeS4 ==
    last.op = "merged" /\ org = S4Dst /\ src = S4Src =>
        EvTics(track) = << <<0, NoteOn(60, 100)>>, <<240, NoteOn(64, 100)>>,
                           <<480, NoteOff(60)>>, <<720, NoteOff(64)>> >>

\* C13 as stated: the C4 note of dst is cut short at tic 240, where the E4
\* note of src starts
C13_MergeS4Cut ==
    last.op = "merged" /\ org = S4Dst /\ src = S4Src =>
        EvTics(track) = << <<0, NoteOn(60, 100)>>, <<240, NoteOff(60)>>,
                           <<240, NoteOn(64, 100)>>, <<720, NoteOff(64)>> >>

\* track_merge() of the two tracks has returned
C13_Witness ==
    /\ last.op = "merged"
    /\ org = S4Dst
    /\ src = S4Src
    /\ NumEvents(track) = 4

(***************************************************************************)
(* SpecMove: track_move(src, start, len, es, dst, copy, blank) of a        *)
(* consistent track, one step of its loops at a time.  track is src and sp *)
(* its seqptr, src is the track dst of the call and rd its seqptr dp,      *)
(* slist is the state list of the original src, org keeps src as it was.   *)
(* last holds the arguments (len0 is len as given, len what is left of it) *)
(* and last.op tells where track_move stands:                              *)
(*   "move_start"    at the call                                           *)
(*   "move_blank"    before the frames to erase are cancelled              *)
(*   "move_first"    in the loop of the first tic of the selection         *)
(*   "move_restore"  before the frames are restored in the copy            *)
(*   "move_tics"     in the loop over the len tics of the selection        *)
(*   "move_cancel"   before the copied frames are cancelled                *)
(*   "move_end"      in the loop of the first tic after the selection      *)
(*   "move_keep"     before the erased frames are restored in src          *)
(*   "move_tail"     in the loop over the rest of the track                *)
(*   "moved"         track_move has returned                               *)
(***************************************************************************)
MoveEvents ==
    {NoteOn(60, 100), NoteOff(60), Ctl(7, 64), Ctl(7, 32), Ctl(7, 0)}

MoveTracks ==
    {t \in UNION {TracksOf(MoveEvents, n, MaxMoveDelta) : n \in 0..MaxMoveEv} :
        Consistent(t)}

\* the consistent tracks of MaxRoundEv events, which are copied whole
RoundTracks ==
    {t \in TracksOf(MoveEvents, MaxRoundEv, MaxRoundDelta) : Consistent(t)}

\* src = [0: CC7=100; 100: CC7=50; 200: CC7=0]
S2Src ==
    <<Cell(0, Ctl(7, 100)), Cell(100, Ctl(7, 50)), Cell(100, Ctl(7, 0)),
      Cell(0, NullEv)>>

MoveArgs(start, len, es, copy, blank) ==
    [op |-> "move_start", ret |-> 0, start |-> start, len |-> len,
     len0 |-> len, es |-> es, copy |-> copy, blank |-> blank]

\* track_move(src, 50, 100, CC, dst, 1, 1)
S2Args == MoveArgs(50, 100, "CTL", TRUE, TRUE)

\* dst before the call: a track of one event
MoveDst == <<Cell(1, Ctl(7, 64)), Cell(0, NullEv)>>

InitMove ==
    /\ \/ /\ track \in MoveTracks
          /\ last \in {MoveArgs(start, len, es, copy, blank) :
                          start \in 0..MaxMoveStart, len \in 0..MaxMoveLen,
                          es \in {"ALL", "NOTE", "CTL"},
                          copy \in BOOLEAN, blank \in BOOLEAN}
       \/ /\ track = S2Src
          /\ last = S2Args
       \/ /\ track \in RoundTracks
          /\ last = MoveArgs(0, TrackLength(track), "ALL", TRUE, FALSE)
    /\ src = MoveDst
    /\ org = track
    /\ sp = seqptr_init(track)
    /\ rd = seqptr_init(src)
    /\ slist = <<>>
    /\ fault = FALSE
    /\ steps = 0

MoveRec == MoveRecOf(track, sp, src, rd, slist)

\* the variables after a step that leaves mv and goes to op with len tics
\* of the selection left
MoveSet(mv, op, len) ==
    /\ track' = mv.t
    /\ sp' = mv.sp
    /\ src' = mv.d
    /\ rd' = mv.dp
    /\ slist' = mv.slist
    /\ last' = [last EXCEPT !.op = op, !.len = len]
    /\ UNCHANGED <<fault, steps, org>>

\* the call up to the tagging of the frames as not copied and not erased
MoveStart ==
    /\ last.op = "move_start"
    /\ IF last.len = 0
       THEN MoveSet(MoveRec, "moved", last.len)
       ELSE MoveSet(MoveRecOf(track,
                              seqptr_skip(track, seqptr_init(track),
                                          last.start).sp,
                              IF last.copy THEN track_clear ELSE src,
                              IF last.copy THEN seqptr_init(track_clear)
                              ELSE rd,
                              move_dup(seqptr_skip(track, seqptr_init(track),
                                                   last.start).sp.statelist)),
                    "move_blank", last.len)

MoveBlank ==
    /\ last.op = "move_blank"
    /\ MoveSet(IF last.blank THEN move_cancel_src(MoveRec, 1, last.es)
               ELSE MoveRec, "move_first", last.len)

\* one turn of while (seqptr_evavail(&sp)) of the first tic
MoveFirst ==
    /\ last.op = "move_first"
    /\ IF seqptr_evavail(track, sp)
       THEN MoveSet(move_event(MoveRec,
                               seqptr_evdel(track, sp, TRUE, slist),
                               "move_first", last.es, last.copy, last.blank),
                    "move_first", last.len)
       ELSE MoveSet(MoveRec, "move_restore", last.len)

MoveRestore ==
    /\ last.op = "move_restore"
    /\ MoveSet(IF last.copy THEN move_restore_dst(MoveRec, 1, last.es)
               ELSE MoveRec, "move_tics", last.len)

\* the state of a move record after seqptr_evdel() gave e, if it gave an
\* event
move_next(mv, e, where, es, copy, blank) ==
    IF e.st = 0 THEN mv ELSE move_event(mv, e, where, es, copy, blank)

\* one turn of the loop over the tics of the selection; x is what
\* seqptr_ticdel() gave
move_region(mv, x, len, es, copy, blank) ==
    IF USub(len, x.n) = 0 THEN move_tics(mv, x, copy)
    ELSE move_next(move_tics(mv, x, copy),
                   seqptr_evdel(move_tics(mv, x, copy).t,
                                move_tics(mv, x, copy).sp, TRUE, x.slist),
                   "move_tics", es, copy, blank)

\* the loop goes on if tics are left and an event was there
MoveTics ==
    /\ last.op = "move_tics"
    /\ MoveSet(move_region(MoveRec,
                           seqptr_ticdel(track, sp, last.len, TRUE, slist),
                           last.len, last.es, last.copy, last.blank),
               IF USub(last.len,
                       seqptr_ticdel(track, sp, last.len, TRUE, slist).n) = 0
                  \/ track[sp.pos].ev.cmd = "NULL"
               THEN "move_cancel" ELSE "move_tics",
               USub(last.len,
                    seqptr_ticdel(track, sp, last.len, TRUE, slist).n))

MoveCancel ==
    /\ last.op = "move_cancel"
    /\ MoveSet(IF last.copy THEN move_cancel_dst(MoveRec, 1) ELSE MoveRec,
               "move_end", last.len)

\* one turn of while (seqptr_evavail(&sp)) of the first tic after the
\* selection
MoveEnd ==
    /\ last.op = "move_end"
    /\ IF seqptr_evavail(track, sp)
       THEN MoveSet(move_event(MoveRec,
                               seqptr_evdel(track, sp, TRUE, slist),
                               "move_end", last.es, last.copy, last.blank),
                    "move_end", last.len)
       ELSE MoveSet(MoveRec, "move_keep", last.len)

MoveKeep ==
    /\ last.op = "move_keep"
    /\ MoveSet(move_restore_src(MoveRec, 1), "move_tail", last.len)

\* track_chomp() of dst if it is a copy and of src if it was blanked
move_done(mv, copy, blank) ==
    [mv EXCEPT !.t = IF blank THEN track_chomp(@) ELSE @,
               !.d = IF copy THEN track_chomp(@) ELSE @]

\* one turn of the loop over the rest of the track; x is what
\* seqptr_ticdel() gave
move_tail(mv, x, e, es, copy, blank) ==
    IF e.st = 0 THEN move_done(move_tics(mv, x, copy), copy, blank)
    ELSE move_event(move_tics(mv, x, copy), e, "move_tail", es, copy, blank)

MoveTail ==
    /\ last.op = "move_tail"
    /\ MoveSet(move_tail(MoveRec,
                         seqptr_ticdel(track, sp, AllTics, TRUE, slist),
                         seqptr_evdel(
                             move_tics(MoveRec,
                                       seqptr_ticdel(track, sp, AllTics,
                                                     TRUE, slist),
                                       last.copy).t,
                             move_tics(MoveRec,
                                       seqptr_ticdel(track, sp, AllTics,
                                                     TRUE, slist),
                                       last.copy).sp,
                             TRUE,
                             seqptr_ticdel(track, sp, AllTics, TRUE,
                                           slist).slist),
                         last.es, last.copy, last.blank),
               IF track[sp.pos].ev.cmd = "NULL" THEN "moved" ELSE "move_tail",
               last.len)

NextMove ==
    \/ MoveStart
    \/ MoveBlank
    \/ MoveFirst
    \/ MoveRestore
    \/ MoveTics
    \/ MoveCancel
    \/ MoveEnd
    \/ MoveKeep
    \/ MoveTail

SpecMove == InitMove /\ [][NextMove]_vars

\* the tic at which the note of event i of t started: the tic of the last
\* note-on of the pitch up to i
NoteStart(t, i) ==
    SumDelta(t, MaxOf({j \in 1..i : /\ t[j].ev.cmd = "NON"
                                    /\ t[j].ev.b1 # 0
                                    /\ t[j].ev.b0 = t[i].ev.b0}))

RECURSIVE NotesOf(_, _, _, _, _)
\* the (tic - ofs, event) of the note events of t from cell i on, of the
\* notes that started in [a, b) if inside holds and of the other notes if it
\* does not
NotesOf(t, i, a, b, inside) ==
    IF i >= Len(t) THEN <<>>
    ELSE (IF /\ EV_ISNOTE(t[i].ev)
             /\ inside = (a <= NoteStart(t, i) /\ NoteStart(t, i) < b)
          THEN << <<SumDelta(t, i), t[i].ev>> >> ELSE <<>>)
         \o NotesOf(t, i + 1, a, b, inside)

\* seq with every tic moved back by ofs
Shifted(seq, ofs) == [i \in 1..Len(seq) |-> <<seq[i][1] - ofs, seq[i][2]>>]

\* the copy holds the notes that started in the selection, complete, and
\* no other note event
MoveCopiesNotes ==
    NotesOf(src, 1, 0, IntMax, TRUE) =
        IF last.es = "CTL" THEN <<>>
        ELSE Shifted(NotesOf(org, 1, last.start, last.start + last.len0,
                             TRUE), last.start)

\* every frame of the copy that is not a note is terminated at offset len
MoveCancelsCopy ==
    \A k \in 1..Len(ReadThrough(src, last.len0).statelist) :
        \/ EV_ISNOTE(ReadThrough(src, last.len0).statelist[k].ev)
        \/ EV_PHASE_LAST \in ReadThrough(src, last.len0).statelist[k].phase

\* src keeps the notes that started before the selection, complete, and
\* loses the selected notes that started inside it, complete
MoveBlanksNotes ==
    /\ NotesOf(track, 1, 0, last.start, TRUE)
          = NotesOf(org, 1, 0, last.start, TRUE)
    /\ last.es # "CTL" =>
          NotesOf(track, 1, last.start, last.start + last.len0, TRUE) = <<>>

\* C14: track_move() of a consistent track, with copy = 1: the copy is
\* consistent, it holds the selected notes that started in the selection
\* up to their note-off and no event of another note, and its other frames
\* are terminated at offset len; with blank = 1 src keeps the notes that
\* started before the selection and loses the selected notes that started
\* inside it
C14_MoveBoundaries ==
    last.op = "moved" /\ last.len0 > 0 =>
        /\ last.copy => /\ Consistent(src)
                        /\ MoveCopiesNotes
                        /\ MoveCancelsCopy
        /\ last.blank => MoveBlanksNotes

\* track_move(t, 0, length(t), ALL, t2, 1, 0)
RoundTrip ==
    /\ last.op = "moved"
    /\ last.start = 0
    /\ last.len0 = TrackLength(org)
    /\ last.es = "ALL"
    /\ last.copy
    /\ ~last.blank

RECURSIVE PhasesOf(_, _)
\* the phases of the events of t from the seqptr c on: the phase of the
\* state that seqptr_evget() returns for each of them
PhasesOf(t, c) ==
    IF seqptr_evavail(t, c)
    THEN LET r == seqptr_evget(t, c)
         IN <<r.sp.statelist[r.st].phase>> \o PhasesOf(t, r.sp)
    ELSE IF seqptr_eot(t, c) THEN <<>>
         ELSE PhasesOf(t, seqptr_ticskip(t, c, USub(t[c.pos].delta,
                                                    c.delta)).sp)

\* at tic length(t) no frame starts and no frame that is not a note is
\* continued
EndsAtLength(t) ==
    \A i \in 1..NumEvents(t) :
        SumDelta(t, i) = TrackLength(t) =>
            /\ EV_PHASE_FIRST \notin PhasesOf(t, seqptr_init(t))[i]
            /\ \/ EV_ISNOTE(t[i].ev)
               \/ EV_PHASE_NEXT \notin PhasesOf(t, seqptr_init(t))[i]

\* a and b, sequences of (tic, event), are the same up to the order of the
\* events at tic n
SameButOrderAt(a, b, n) ==
    /\ Len(a) = Len(b)
    /\ \A i \in 1..Len(a) :
          \/ a[i] = b[i]
          \/ /\ a[i][1] = n
             /\ b[i][1] = n
    /\ \A i \in 1..Len(a) :
          Cardinality({j \in 1..Len(a) : a[j] = a[i]})
              = Cardinality({j \in 1..Len(b) : b[j] = a[i]})

\* C15: for a consistent track t of 1 tic or more in which, at tic
\* length(t), no frame starts and no frame that is not a note is continued,
\* track_move(t, 0, length(t), ALL, t2, 1, 0) gives a t2 with the same
\* sequence of (absolute tic, event) as t up to the order of the events at
\* tic length(t)
C15_RoundTrip ==
    /\ RoundTrip
    /\ last.len0 > 0
    /\ EndsAtLength(org)
    => SameButOrderAt(EvTics(src), EvTics(org), last.len0)

\* C15 as stated: the same sequence for every consistent track t
C15_RoundTripAll == RoundTrip => EvTics(src) = EvTics(org)

\* a track of four events was copied whose note and controller both end at
\* tic length(t): the copy has the four events, the cancel of the
\* controller before the note-off
C15_Witness ==
    /\ RoundTrip
    /\ last.len0 > 0
    /\ EndsAtLength(org)
    /\ NumEvents(org) = 4
    /\ SumDelta(org, 3) = last.len0
    /\ org[3].ev = NoteOff(60)
    /\ org[4].ev = Ctl(7, 0)
    /\ NumEvents(src) = 4
    /\ src[3].ev = Ctl(7, 0)
    /\ src[4].ev = NoteOff(60)

\* C16: for src = [0: CC7=100; 100: CC7=50; 200: CC7=0], track_move(src,
\* 50, 100, CC, dst, 1, 1) leaves dst with the restore CC7=100 at 0, CC7=50
\* at 50 and the cancel CC7=0 at 100, the length of the selection, and src
\* with CC7=100 at 0, the cancel CC7=0 at 50, the restore CC7=50 at 150 and
\* CC7=0 at 200
C16_MoveS2 ==
    last.op = "moved" /\ org = S2Src /\ last.len0 = S2Args.len0 =>
        /\ EvTics(src) = << <<0, Ctl(7, 100)>>, <<50, Ctl(7, 50)>>,
                            <<100, Ctl(7, 0)>> >>
        /\ EvTics(track) = << <<0, Ctl(7, 100)>>, <<50, Ctl(7, 0)>>,
                              <<150, Ctl(7, 50)>>, <<200, Ctl(7, 0)>> >>

\* C16 as stated: the cancel of dst is at tic 150
C16_MoveS2At150 ==
    last.op = "moved" /\ org = S2Src /\ last.len0 = S2Args.len0 =>
        /\ EvTics(src) = << <<0, Ctl(7, 100)>>, <<50, Ctl(7, 50)>>,
                            <<150, Ctl(7, 0)>> >>
        /\ EvTics(track) = << <<0, Ctl(7, 100)>>, <<50, Ctl(7, 0)>>,
                              <<150, Ctl(7, 50)>>, <<200, Ctl(7, 0)>> >>

\* track_move() of the scenario has returned
C16_Witness ==
    /\ last.op = "moved"
    /\ org = S2Src
    /\ last.len0 = S2Args.len0
    /\ NumEvents(src) = 3
    /\ NumEvents(track) = 4

(***************************************************************************)
(* SpecCheck: track_check(src) of any track, one step of its loops at a    *)
(* time, called a second time on its own result.  track is src, sp its     *)
(* seqptr, slist the states of the track as it was, org keeps the track    *)
(* given to the first call and src the result of the first call.           *)
(* last.ret counts the calls and last.op tells where track_check stands:   *)
(*   "check_loop"  in the loop that reconstructs the track                 *)
(*   "check_undo"  before the unterminated frames are erased               *)
(*   "checked"     track_check has returned                                *)
(***************************************************************************)
CheckEvents ==
    {NoteOn(60, 100), NoteOn(60, 50), NoteOff(60), Ctl(7, 64), Ctl(7, 0)}

CheckTracks ==
    UNION {TracksOf(CheckEvents, n, MaxCheckDelta) : n \in 0..MaxCheckEv}

InitCheck ==
    /\ track \in CheckTracks
    /\ org = track
    /\ src = <<>>
    /\ sp = seqptr_init(track)
    /\ rd = seqptr_init(<<>>)
    /\ slist = <<>>
    /\ last = [op |-> "check_loop", ret |-> 1]
    /\ fault = FALSE
    /\ steps = 0

\* one turn of the loop that reconstructs the track
CheckEv ==
    /\ last.op = "check_loop"
    /\ \E x \in {seqptr_ticdel(track, sp, AllTics, TRUE, slist)} :
       \E c \in {check_turn(x, seqptr_ticput(x.t, x.sp, x.n))} :
          /\ track' = c.t
          /\ sp' = c.sp
          /\ slist' = c.slist
          /\ last' = [last EXCEPT
                        !.op = IF c.done THEN "check_undo" ELSE @]
    /\ UNCHANGED <<org, src, rd, fault, steps>>

\* the loop that erases the unterminated frames, and the end of the call
CheckUndo ==
    /\ last.op = "check_undo"
    /\ \E c \in {check_undo(track, sp, 1)} :
          /\ track' = c.t
          /\ sp' = c.sp
          /\ fault' = c.fault
    /\ slist' = <<>>
    /\ last' = [last EXCEPT !.op = "checked"]
    /\ UNCHANGED <<org, src, rd, steps>>

\* track_check() is called on the track that the first call left
CheckAgain ==
    /\ last.op = "checked"
    /\ last.ret = 1
    /\ ~fault
    /\ src' = track
    /\ sp' = seqptr_init(track)
    /\ slist' = <<>>
    /\ last' = [op |-> "check_loop", ret |-> 2]
    /\ UNCHANGED <<track, org, rd, fault, steps>>

NextCheck == CheckEv \/ CheckUndo \/ CheckAgain

SpecCheck == InitCheck /\ [][NextCheck]_vars

\* the track given to the first call is [NoteOn C4; NoteOn C4; NoteOff C4],
\* whatever the velocities and the tics
IsS5(t) ==
    /\ NumEvents(t) = 3
    /\ t[1].ev.cmd = "NON" /\ t[1].ev.b0 = 60
    /\ t[2].ev.cmd = "NON" /\ t[2].ev.b0 = 60
    /\ t[3].ev = NoteOff(60)

\* C17: when track_check has returned, the track read from a fresh seqptr
\* has no BOGUS event, no NESTED event and no unterminated frame, and
\* [NoteOn C4; NoteOn C4; NoteOff C4] has become [NoteOn C4; NoteOff C4].
\* A note-on of a note that is sounding does not come with a NEW state, so
\* track_check keeps it unless it repeats the first note-on.
C17_CheckS5 ==
    last.op = "checked" =>
        /\ Consistent(track)
        /\ (last.ret = 1 /\ IsS5(org) =>
               /\ NumEvents(track) = 2
               /\ track[1].ev = org[1].ev
               /\ track[2].ev = NoteOff(60))

\* C18: track_check called on the track that track_check left changes
\* nothing.
C18_CheckIdempotent ==
    last.op = "checked" /\ last.ret = 2 => track = src

\* the first call dropped a duplicated controller event, and the second
\* call has returned
C18_Witness ==
    /\ last.op = "checked"
    /\ last.ret = 2
    /\ org = <<Cell(0, Ctl(7, 64)), Cell(1, Ctl(7, 64)), Cell(1, Ctl(7, 0)),
               Cell(0, NullEv)>>
    /\ src = <<Cell(0, Ctl(7, 64)), Cell(2, Ctl(7, 0)), Cell(0, NullEv)>>
    /\ track = src

(***************************************************************************)
(* SpecQuantize: track_quantize(src, start, len, offset, quant, rate) of a *)
(* consistent track, one turn of its loops at a time, track_merge(src,     *)
(* &qt) included.  track is src and sp its seqptr, the variable src is the *)
(* scratch track qt and rd its seqptr qp, slist the states of src; once    *)
(* track_merge is entered sp, rd and slist are its pd, p2 and orglist.     *)
(* org keeps src as it was.  last holds the arguments, the locals tic, ofs *)
(* and notes, and where the function stands:                               *)
(*   "quant_start"  before seqptr_skip(&sp, start)                         *)
(*   "quant_region" in the loop over the len tics of the selection         *)
(*   "quant_tail"   in the loop that finishes the quantised frames         *)
(*   "merge_dst", "merge_src", "merge_tics", "merged"  in track_merge      *)
(*   "quantized"    track_quantize has returned                            *)
(*   "panic"        dbg_panic() was called                                 *)
(***************************************************************************)
QuantEvents == {NoteOn(60, 100), NoteOff(60), Ctl(7, 64), Ctl(7, 0)}

QuantRates == {0, 50, 100}

QuantTracks ==
    {t \in UNION {TracksOf(QuantEvents, n, MaxQuantDelta) :
                     n \in 0..MaxQuantEv} : Consistent(t)}

QuantArgs(start, len, offset, quant, rate) ==
    [op |-> "quant_start", ret |-> 0, start |-> start, len |-> len,
     offset |-> offset, quant |-> quant, rate |-> rate,
     tic |-> 0, ofs |-> 0, notes |-> 0]

\* scenario S1: [0: NoteOn C4 v=100; 480: NoteOff C4], quantize(start=0,
\* len=960, offset=0, quant=240, rate=100)
S1Src ==
    <<Cell(0, NoteOn(60, 100)), Cell(480, NoteOff(60)), Cell(0, NullEv)>>

S1Args == QuantArgs(0, 960, 0, 240, 100)

InitQuantize ==
    /\ \/ /\ track \in QuantTracks
          /\ \E start \in 0..MaxQuantStart, len \in 0..MaxQuantLen,
                offset \in 0..MaxQuantOffset, quant \in 0..MaxQuant,
                rate \in QuantRates :
                last = QuantArgs(start, len, offset, quant, rate)
       \/ /\ track = S1Src
          /\ last = S1Args
    /\ org = track
    /\ src = track_clear
    /\ sp = seqptr_init(track)
    /\ rd = seqptr_init(track_clear)
    /\ slist = <<>>
    /\ fault = FALSE
    /\ steps = 0

\* go to start position and untag all events
QuantStart ==
    /\ last.op = "quant_start"
    /\ \E k \in {seqptr_skip(track, sp, last.start)} :
       \E s \in {seqptr_seek(src, rd, last.start)} :
          /\ sp' = k.sp
          /\ slist' = quant_dup(k.sp.statelist)
          /\ src' = s.t
          /\ rd' = s.sp
    /\ last' = [last EXCEPT !.op = "quant_region", !.tic = last.start,
                            !.ofs = 0]
    /\ UNCHANGED <<track, org, fault, steps>>

\* one turn of the loop over the selection: the event at the cursor is
\* taken from src and put in qt if its frame is tagged, in src if not
QuantEv ==
    /\ last.op = "quant_region"
    /\ \E x \in {seqptr_ticdel(track, sp, last.len, TRUE, slist)} :
          IF ~ULess(UAdd(last.tic, x.n), UAdd(last.start, last.len))
             \/ ~seqptr_evavail(x.t, x.sp)
          THEN /\ track' = x.t
               /\ sp' = x.sp
               /\ slist' = x.slist
               /\ last' = [last EXCEPT !.op = "quant_tail",
                                       !.tic = UAdd(last.tic, x.n)]
               /\ UNCHANGED <<src, rd, fault>>
          ELSE \E p \in {seqptr_ticput(x.t, x.sp, x.n)} :
               \E ofs \in {quant_ofs(last,
                                     quant_remaind(last,
                                                   UAdd(last.tic, x.n)))} :
               \E d \in {quant_delta(USub(x.n, last.ofs), ofs)} :
                  IF d.panic
                  THEN /\ track' = p.t
                       /\ sp' = p.sp
                       /\ slist' = x.slist
                       /\ fault' = TRUE
                       /\ last' = [last EXCEPT !.op = "panic",
                                               !.tic = UAdd(last.tic, x.n),
                                               !.ofs = ofs]
                       /\ UNCHANGED <<src, rd>>
                  ELSE \E qd \in {seqptr_ticput(src, rd, d.delta)} :
                       \E e \in {seqptr_evdel(p.t, p.sp, TRUE, x.slist)} :
                       \E tag \in {quant_tag(e.slist[e.st])} :
                       \E w \in {IF tag # 0
                                 THEN seqptr_evput(qd.t, qd.sp,
                                                   e.slist[e.st].ev)
                                 ELSE seqptr_evput(e.t, e.sp,
                                                   e.slist[e.st].ev)} :
                          /\ track' = IF tag # 0 THEN e.t ELSE w.t
                          /\ sp' = IF tag # 0 THEN e.sp ELSE w.sp
                          /\ src' = IF tag # 0 THEN w.t ELSE qd.t
                          /\ rd' = IF tag # 0 THEN w.sp ELSE qd.sp
                          /\ slist' = [e.slist EXCEPT ![e.st].tag = tag]
                          /\ last' = [last EXCEPT
                                        !.tic = UAdd(last.tic, x.n),
                                        !.ofs = ofs,
                                        !.notes = quant_notes(e.slist[e.st],
                                                              @)]
                          /\ UNCHANGED fault
    /\ UNCHANGED <<org, steps>>

\* one turn of the loop that finishes the quantised (tagged) frames; when
\* no event is left, track_merge(src, &qt) is entered
QuantTail ==
    /\ last.op = "quant_tail"
    /\ \E x \in {seqptr_ticdel(track, sp, AllTics, TRUE, slist)} :
       \E p \in {seqptr_ticput(x.t, x.sp, x.n)} :
          IF ~seqptr_evavail(p.t, p.sp)
          THEN /\ track' = p.t
               /\ sp' = seqptr_init(p.t)
               /\ rd' = seqptr_init(src)
               /\ slist' = <<>>
               /\ last' = [last EXCEPT !.op = "merge_dst"]
               /\ UNCHANGED src
          ELSE \E e \in {seqptr_evdel(p.t, p.sp, TRUE, x.slist)} :
               \E tag \in {quant_tag_tail(e.slist[e.st])} :
               \E qd \in {seqptr_ticput(src, rd, x.n)} :
               \E w \in {IF tag # 0
                         THEN seqptr_evput(qd.t, qd.sp, e.slist[e.st].ev)
                         ELSE seqptr_evput(e.t, e.sp, e.slist[e.st].ev)} :
                  /\ track' = IF tag # 0 THEN e.t ELSE w.t
                  /\ sp' = IF tag # 0 THEN e.sp ELSE w.sp
                  /\ src' = IF tag # 0 THEN w.t ELSE qd.t
                  /\ rd' = IF tag # 0 THEN w.sp ELSE qd.sp
                  /\ slist' = [e.slist EXCEPT ![e.st].tag = tag]
                  /\ UNCHANGED last
    /\ UNCHANGED <<org, fault, steps>>

\* after track_merge: dbg_putu(100 * fluct / notes) divides by notes, which
\* is not defined when no note starts in the selection; the program stops
\* there or goes on
QuantDone ==
    /\ last.op = "merged"
    /\ last' = [last EXCEPT !.op = "quantized"]
    /\ fault' \in IF last.notes = 0 /\ ~fault THEN BOOLEAN ELSE {fault}
    /\ UNCHANGED <<track, src, sp, rd, slist, org, steps>>

NextQuantize ==
    \/ QuantStart \/ QuantEv \/ QuantTail
    \/ MergeDst \/ MergeSrc \/ MergeTics
    \/ QuantDone

SpecQuantize == InitQuantize /\ [][NextQuantize]_vars

\* tic t is in the selection [start, start+len)
QuantSel(t) == t >= last.start /\ t < last.start + last.len

\* e starts a note
QuantStarts(e) == EV_ISNOTE(e) /\ EV_PHASE_FIRST \in ev_phase(e)

\* track t has event x[2] at absolute tic x[1]
HasEv(t, x) == \E j \in 1..NumEvents(t) : EvTics(t)[j] = x

\* the tic of the grid that the remainder formula gives for tic t
QuantGridTic(t) ==
    IF quant_remaind(last, t) < last.quant \div 2
    THEN t - quant_remaind(last, t)
    ELSE t + last.quant - quant_remaind(last, t)

\* C19: with rate = 100 and quant > 0 track_quantize returns, and every
\* note-on that was at a tic t of the selection is then at the tic t' of
\* the grid next to t, (t' - start + offset) mod quant = 0; a note-on
\* already on the grid is where it was.
C19_QuantGrid ==
    last.rate = 100 /\ last.quant > 0 =>
        /\ last.op # "panic"
        /\ last.op = "quantized" =>
              \A i \in 1..NumEvents(org) :
                 QuantStarts(org[i].ev) /\ QuantSel(EvTics(org)[i][1]) =>
                    /\ HasEv(track, <<QuantGridTic(EvTics(org)[i][1]),
                                      org[i].ev>>)
                    /\ (QuantGridTic(EvTics(org)[i][1]) - last.start
                        + last.offset) % last.quant = 0

\* C20: when track_quantize has returned, every event that is not a
\* note-on of the selection is at the tic where it was, the track is as
\* long as it was, and with rate = 0 every event is at the tic where it
\* was.
C20_QuantOthers ==
    last.op = "quantized" =>
        /\ \A i \in 1..NumEvents(org) :
              ~(QuantStarts(org[i].ev) /\ QuantSel(EvTics(org)[i][1])) =>
                 HasEv(track, EvTics(org)[i])
        /\ TrackLength(track) = TrackLength(org)
        /\ last.rate = 0 => EvTics(track) = EvTics(org)

(***************************************************************************)
(* SpecTranspose: track_transpose(src, start, len, halftones) of a         *)
(* consistent track, one turn of its loops at a time, track_merge(src,     *)
(* &qt) included, called three times: on src by a + b (call 1, the result  *)
(* is kept in last.single), then on src as it was by a (call 2) and on the *)
(* result of that by b (call 3).  track is src and sp its seqptr, the      *)
(* variable src is the scratch track qt and rd its seqptr qp, slist the    *)
(* states of src; in track_merge sp, rd and slist are pd, p2 and orglist.  *)
(* last.ret is the number of the call and last.op where it stands:         *)
(*   "trans_start"   before seqptr_skip(&sp, start)                        *)
(*   "trans_region"  in the loop over the len tics of the selection        *)
(*   "trans_tail"    in the loop that finishes the transposed frames       *)
(*   "merge_dst", "merge_src", "merge_tics", "merged"  in track_merge      *)
(*   "transposed"    the third call has returned                           *)
(***************************************************************************)
TransEvents ==
    {NoteOn(127, 100), NoteOff(127), NoteOn(0, 100), NoteOff(0),
     KeyAft(0, 64), Ctl(7, 64), Ctl(7, 0)}

TransTracks ==
    {t \in UNION {TracksOf(TransEvents, n, MaxTransDelta) :
                     n \in 0..MaxTransEv} : Consistent(t)}

\* the whole track: start = 0 and len = ~0U; or the len tics from start
TransLens == {1, AllTics}

\* a note at the top of the range together with a controller frame
TransMixed ==
    <<Cell(0, NoteOn(127, 100)), Cell(0, Ctl(7, 64)), Cell(1, NoteOff(127)),
      Cell(1, Ctl(7, 0)), Cell(0, NullEv)>>

InitTranspose ==
    /\ track \in TransTracks \cup {TransMixed}
    /\ \E a \in (0 - MaxHalftones)..MaxHalftones,
          b \in (0 - MaxHalftones)..MaxHalftones,
          start \in 0..MaxTransStart, len \in TransLens :
          /\ len = AllTics => start = 0
          /\ last = [op |-> "trans_start", ret |-> 1, start |-> start,
                     len |-> len, halftones |-> a + b, a |-> a, b |-> b,
                     tic |-> 0, single |-> <<>>]
    /\ org = track
    /\ src = track_clear
    /\ sp = seqptr_init(track)
    /\ rd = seqptr_init(track_clear)
    /\ slist = <<>>
    /\ fault = FALSE
    /\ steps = 0

\* go to start position and untag all frames
TransStart ==
    /\ last.op = "trans_start"
    /\ \E k \in {seqptr_skip(track, sp, last.start)} :
       \E s \in {seqptr_seek(src, rd, last.start)} :
          /\ sp' = k.sp
          /\ slist' = quant_dup(k.sp.statelist)
          /\ src' = s.t
          /\ rd' = s.sp
    /\ last' = [last EXCEPT !.op = "trans_region", !.tic = last.start]
    /\ UNCHANGED <<track, org, fault, steps>>

\* one turn of the loop over the selection
TransEv ==
    /\ last.op = "trans_region"
    /\ \E x \in {seqptr_ticdel(track, sp, last.len, TRUE, slist)} :
       \E p \in {seqptr_ticput(x.t, x.sp, x.n)} :
       \E qd \in {seqptr_ticput(src, rd, x.n)} :
          IF ~ULess(UAdd(last.tic, x.n), UAdd(last.start, last.len))
             \/ ~seqptr_evavail(p.t, p.sp)
          THEN /\ track' = p.t
               /\ sp' = p.sp
               /\ src' = qd.t
               /\ rd' = qd.sp
               /\ slist' = x.slist
               /\ last' = [last EXCEPT !.op = "trans_tail",
                                       !.tic = UAdd(last.tic, x.n)]
          ELSE \E e \in {seqptr_evdel(p.t, p.sp, TRUE, x.slist)} :
               \E w \in {trans_put(e, qd, trans_tag(e.slist[e.st]),
                                   last.halftones)} :
                  /\ track' = w.t
                  /\ sp' = w.sp
                  /\ src' = w.qt
                  /\ rd' = w.qp
                  /\ slist' = w.slist
                  /\ last' = [last EXCEPT !.tic = UAdd(last.tic, x.n)]
    /\ UNCHANGED <<org, fault, steps>>

\* one turn of the loop that finishes the transposed (tagged) frames; when
\* no event is left, track_merge(src, &qt) is entered
TransTail ==
    /\ last.op = "trans_tail"
    /\ \E x \in {seqptr_ticdel(track, sp, AllTics, TRUE, slist)} :
       \E p \in {seqptr_ticput(x.t, x.sp, x.n)} :
       \E qd \in {seqptr_ticput(src, rd, x.n)} :
          IF ~seqptr_evavail(p.t, p.sp)
          THEN /\ track' = p.t
               /\ src' = qd.t
               /\ sp' = seqptr_init(p.t)
               /\ rd' = seqptr_init(qd.t)
               /\ slist' = <<>>
               /\ last' = [last EXCEPT !.op = "merge_dst"]
          ELSE \E e \in {seqptr_evdel(p.t, p.sp, TRUE, x.slist)} :
               \E w \in {trans_put(e, qd, trans_tag_tail(e.slist[e.st]),
                                   last.halftones)} :
                  /\ track' = w.t
                  /\ sp' = w.sp
                  /\ src' = w.qt
                  /\ rd' = w.qp
                  /\ slist' = w.slist
                  /\ UNCHANGED last
    /\ UNCHANGED <<org, fault, steps>>

\* track_transpose returns; the next call is made
TransDone ==
    /\ last.op = "merged"
    /\ ~fault
    /\ track' = IF last.ret = 1 THEN org ELSE track
    /\ sp' = seqptr_init(track')
    /\ src' = track_clear
    /\ rd' = seqptr_init(track_clear)
    /\ slist' = <<>>
    /\ last' = [last EXCEPT
                  !.op = IF last.ret = 3 THEN "transposed" ELSE "trans_start",
                  !.ret = IF last.ret = 3 THEN 3 ELSE @ + 1,
                  !.halftones = IF last.ret = 1 THEN last.a ELSE last.b,
                  !.single = IF last.ret = 1 THEN track ELSE @]
    /\ UNCHANGED <<org, fault, steps>>

NextTranspose ==
    \/ TransStart \/ TransEv \/ TransTail
    \/ MergeDst \/ MergeSrc \/ MergeTics
    \/ TransDone

SpecTranspose == InitTranspose /\ [][NextTranspose]_vars

\* C21: for a consistent track, track_transpose of the whole track by a and
\* then by b gives the track that track_transpose by a + b gives: notes
\* with the pitch (pitch + a + b) mod 128, the other events as they were.
C21_TransposeCompose ==
    last.op = "transposed" /\ last.start = 0 /\ last.len = AllTics =>
        /\ track = last.single
        /\ \A i \in 1..NumEvents(org) :
              HasEv(track, <<EvTics(org)[i][1],
                             IF EV_ISNOTE(org[i].ev)
                             THEN ev_transpose(org[i].ev, last.a + last.b)
                             ELSE org[i].ev>>)
        /\ NumEvents(track) = NumEvents(org)

\* a note of pitch 127 was transposed by 1 and by 1 again, past the top of
\* the range
C21_Witness ==
    /\ last.op = "transposed"
    /\ last.start = 0 /\ last.len = AllTics
    /\ last.a = 1 /\ last.b = 1
    /\ org = TransMixed
    /\ HasEv(track, <<0, NoteOn(1, 100)>>)
    /\ HasEv(track, <<0, Ctl(7, 64)>>)

(***************************************************************************)
(* SpecTime: track_findmeasure(t, meas) and then track_timeinfo(t, meas,   *)
(* &abs, &usec24, &bpm, &tpb) on a consistent track of tempo, time         *)
(* signature and note events.  track is t; last holds meas, what           *)
(* track_findmeasure returned (found), the four variables that             *)
(* track_timeinfo writes to, and last.op:                                  *)
(*   "find"  before track_findmeasure                                      *)
(*   "info"  before track_timeinfo                                         *)
(*   "done"  track_timeinfo has returned                                   *)
(***************************************************************************)
TimeEvents ==
    {TimeSig(2, 1), TimeSig(1, 3), Tempo(1), NoteOn(60, 100), NoteOff(60)}

TimeTracks ==
    {t \in UNION {TracksOf(TimeEvents, n, MaxTimeDelta) :
                     n \in 0..MaxTimeEv} : Consistent(t)}

\* scenario S6: a single TimeSig(beats=4, tics=120) at t=0
S6Track == <<Cell(0, TimeSig(4, 120)), Cell(0, NullEv)>>

S6Meas == 4

InitTime ==
    /\ \E m \in 0..MaxMeas \cup {S6Meas} :
          /\ \/ track \in TimeTracks /\ m <= MaxMeas
             \/ track = S6Track /\ m = S6Meas
          /\ last = [op |-> "find", ret |-> 0, meas |-> m, found |-> 0,
                     abs |-> AbsUnset, usec24 |-> 0, bpm |-> 0, tpb |-> 0]
    /\ steps = 0
    /\ org = track
    /\ src = <<>>
    /\ sp = seqptr_init(track)
    /\ rd = seqptr_init(<<>>)
    /\ slist = <<>>
    /\ fault = FALSE

FindMeasure ==
    /\ last.op = "find"
    /\ \E k \in {seqptr_skipmeasure(track, seqptr_init(track), last.meas)} :
          /\ track' = k.t
          /\ sp' = k.sp
          /\ last' = [last EXCEPT !.op = "info", !.found = UAdd(k.n, k.sp.tic)]
    /\ UNCHANGED <<src, rd, slist, org, fault, steps>>

TimeInfo ==
    /\ last.op = "info"
    /\ \E r \in {track_timeinfo(track, last.meas, last.abs)} :
          /\ track' = r.t
          /\ last' = [last EXCEPT !.op = "done", !.abs = r.abs,
                                  !.usec24 = r.usec24, !.bpm = r.bpm,
                                  !.tpb = r.tpb]
    /\ sp' = seqptr_getall(track,
                           seqptr_skipmeasure(track, seqptr_init(track),
                                              last.meas).sp)
    /\ UNCHANGED <<src, rd, slist, org, fault, steps>>

NextTime == FindMeasure \/ TimeInfo

SpecTime == InitTime /\ [][NextTime]_vars

\* the only time signature of track t is at tic 0, or t has none
SignAtStart(t) ==
    \A i \in 1..NumEvents(t) :
       t[i].ev.cmd = "TIMESIG" =>
          /\ EvTics(t)[i][1] = 0
          /\ \A j \in 1..NumEvents(t) : t[j].ev.cmd = "TIMESIG" => j = i

\* tics per measure of the time signature of t at tic 0, or of the default
SignTics(t) ==
    IF \E i \in 1..NumEvents(t) : t[i].ev.cmd = "TIMESIG"
    THEN LET i == CHOOSE i \in 1..NumEvents(t) : t[i].ev.cmd = "TIMESIG"
         IN t[i].ev.b0 * t[i].ev.b1
    ELSE DEFAULT_BPM * DEFAULT_TPB

\* C23: on a track whose only time signature is set at tic 0 (or that has
\* none), track_findmeasure(t, m) returns m * bpm * tpb, whether measure m
\* is within the track or past its end, and leaves the track as it was.
C23_FindMeasure ==
    last.op \in {"info", "done"} /\ SignAtStart(org) =>
        /\ last.found = last.meas * SignTics(org)
        /\ track = org

\* measure 4 of scenario S6 is found at tic 1920, past the end of the track
C23_Witness ==
    /\ last.op = "info"
    /\ org = S6Track
    /\ last.meas = 4
    /\ last.found = 1920
    /\ TrackLength(org) < 1920

\* C24: track_timeinfo(t, m) stores in *abs what track_findmeasure(t, m)
\* returns, for every m, and gives the time signature and the tempo of the
\* states once every event of that tic was read.
C24_TimeInfo ==
    last.op = "done" =>
        /\ last.abs = last.found
        /\ last.bpm = seqptr_getsign(ReadThrough(org, last.found)).bpm
        /\ last.tpb = seqptr_getsign(ReadThrough(org, last.found)).tpb
        /\ last.usec24 = seqptr_gettempo(ReadThrough(org, last.found)).usec24

(***************************************************************************)
(* SpecConf: track_confev(src, ev) on a track of one-shot events, one turn *)
(* of its loops at a time, called MaxConfCalls times.  track is src, sp    *)
(* its seqptr, slist the states of the deleted track, org the track before *)
(* the call.  last holds ev, tagmax, tagmin, the number of the call (ret)  *)
(* and last.op:                                                            *)
(*   "conf_start"   before the call                                        *)
(*   "conf_delete"  in the loop that deletes the track                     *)
(*   "conf_update"  before statelist_update(&slist, ev)                    *)
(*   "conf_dump"    in the loop that dumps the events                      *)
(*   "conf_done"    the call has returned                                  *)
(***************************************************************************)
ConfEvents == {Prog(5), Prog(7), Tempo(1), Tempo(2), TimeSig(2, 1)}

\* events given to track_confev: the one-shot ones, and a note-on
ConfArgs == ConfEvents \cup {NoteOn(60, 100)}

ConfTracks ==
    UNION {TracksOf(ConfEvents, n, MaxConfDelta) : n \in 0..MaxConfEv}

InitConf ==
    /\ track \in ConfTracks
    /\ \E ev \in ConfArgs :
          last = [op |-> "conf_start", ret |-> 1, ev |-> ev, tagmax |-> 0,
                  tagmin |-> 0]
    /\ org = track
    /\ src = <<>>
    /\ sp = seqptr_init(track)
    /\ rd = seqptr_init(<<>>)
    /\ slist = <<>>
    /\ fault = FALSE
    /\ steps = 0

\* if (ev_phase(ev) != (EV_PHASE_FIRST | EV_PHASE_LAST)) { ...; return; }
\* the message is made of st->ev while st has no value yet: the call stops
\* there or returns
ConfStart ==
    /\ last.op = "conf_start"
    /\ IF ev_phase(last.ev) # {EV_PHASE_FIRST, EV_PHASE_LAST}
       THEN /\ fault' \in BOOLEAN
            /\ last' = [last EXCEPT !.op = "conf_done"]
       ELSE /\ fault' = fault
            /\ last' = [last EXCEPT !.op = "conf_delete", !.tagmax = 0]
    /\ sp' = seqptr_init(track)
    /\ slist' = <<>>
    /\ UNCHANGED <<track, src, rd, org, steps>>

\* one turn of the loop that deletes the track
ConfDelete ==
    /\ last.op = "conf_delete"
    /\ \E x \in {seqptr_ticdel(track, sp, AllTics, TRUE, slist)} :
       \E e \in {seqptr_evdel(x.t, x.sp, TRUE, x.slist)} :
          /\ track' = e.t
          /\ sp' = e.sp
          /\ IF e.st = 0
             THEN /\ slist' = e.slist
                  /\ last' = [last EXCEPT !.op = "conf_update"]
             ELSE /\ slist' = [e.slist EXCEPT ![e.st].tag = last.tagmax]
                  /\ last' = [last EXCEPT !.tagmax = @ + 1]
    /\ UNCHANGED <<src, rd, org, fault, steps>>

\* update the state for ev
ConfUpdate ==
    /\ last.op = "conf_update"
    /\ \E u \in {statelist_update(slist, last.ev)} :
          slist' = [u.sl EXCEPT ![u.st].tag = last.tagmax]
    /\ last' = [last EXCEPT !.op = "conf_dump", !.tagmax = @ + 1,
                            !.tagmin = 0]
    /\ UNCHANGED <<track, sp, src, rd, org, fault, steps>>

\* one turn of the loop that dumps the events; state_restore(st, rev) of
\* no state (st == NULL) is not defined
ConfDump ==
    /\ last.op = "conf_dump"
    /\ IF last.tagmin < last.tagmax
       THEN \E n \in {confev_next(slist, last.tagmin, 1, 0, last.tagmax)} :
               IF n.st = 0
               THEN /\ fault' = TRUE
                    /\ last' = [last EXCEPT !.op = "conf_done"]
                    /\ UNCHANGED <<track, sp>>
               ELSE \E w \in {confev_restore(track, sp,
                                             state_restore(slist[n.st]))} :
                       /\ track' = w.t
                       /\ sp' = w.sp
                       /\ last' = [last EXCEPT !.tagmin = n.tag + 1]
                       /\ UNCHANGED fault
       ELSE /\ last' = [last EXCEPT !.op = "conf_done"]
            /\ UNCHANGED <<track, sp, fault>>
    /\ UNCHANGED <<slist, src, rd, org, steps>>

\* track_confev is called again, on the track that the call left
ConfAgain ==
    /\ last.op = "conf_done"
    /\ ~fault
    /\ last.ret < MaxConfCalls
    /\ \E ev \in ConfArgs :
          last' = [op |-> "conf_start", ret |-> last.ret + 1, ev |-> ev,
                   tagmax |-> 0, tagmin |-> 0]
    /\ org' = track
    /\ UNCHANGED <<track, sp, slist, src, rd, fault, steps>>

NextConf == ConfStart \/ ConfDelete \/ ConfUpdate \/ ConfDump \/ ConfAgain

SpecConf == InitConf /\ [][NextConf]_vars

RECURSIVE LatestOf(_, _, _)
\* the events of track t from index i on that no later event of the same
\* frame follows and that are not of the frame of ev, in their order
LatestOf(t, ev, i) ==
    IF i > NumEvents(t) THEN <<>>
    ELSE IF FrameId(t[i].ev) = FrameId(ev)
            \/ \E j \in (i + 1)..NumEvents(t) :
                  FrameId(t[j].ev) = FrameId(t[i].ev)
         THEN LatestOf(t, ev, i + 1)
         ELSE <<Cell(0, t[i].ev)>> \o LatestOf(t, ev, i + 1)

\* C22: track_confev(ev) with a one-shot event on a track of one-shot
\* events leaves one event for each frame of the track, with the latest
\* value of the frame and in the order in which the frames were last
\* updated, and then the one event of the frame of ev, which is ev; after
\* confev(Program=5) on an empty track and confev(Program=7) the track has
\* no event but ProgramChange=7, at tic 0.
C22_ConfEv ==
    /\ last.op = "conf_done"
          /\ ev_phase(last.ev) = {EV_PHASE_FIRST, EV_PHASE_LAST} =>
          /\ ~fault
          /\ track = LatestOf(org, last.ev, 1)
                     \o <<Cell(0, last.ev), Cell(0, NullEv)>>
    /\ last.op = "conf_done" /\ last.ret = 2 /\ last.ev = Prog(7)
          /\ org = <<Cell(0, Prog(5)), Cell(0, NullEv)>> =>
          EvTics(track) = <<<<0, Prog(7)>>>>

\* the call replaced the program of a track where a tempo was set
\* before the program and a time signature after it
C22_Witness ==
    /\ last.op = "conf_done"
    /\ last.ev = Prog(7)
    /\ org = <<Cell(0, Tempo(1)), Cell(0, Prog(5)), Cell(0, TimeSig(2, 1)),
               Cell(0, NullEv)>>
    /\ track = <<Cell(0, Tempo(1)), Cell(0, TimeSig(2, 1)), Cell(0, Prog(7)),
                 Cell(0, NullEv)>>
(***************************************************************************)
(* SpecTempo: track_settempo(t, measure, tempo) on a track of tempo, time  *)
(* signature and program events, one turn of its loops at a time.  track   *)
(* is t, sp its seqptr, slist the states of the track as it was, org the   *)
(* track before the call.  last holds measure, tempo, the local usec24,    *)
(* the tic of the measure (at) and last.op:                                *)
(*   "tempo_seek"    before seqptr_skipmeasure                             *)
(*   "tempo_remove"  in the loop that removes the tempo events of the tic  *)
(*   "tempo_insert"  before the new tempo event is put                     *)
(*   "tempo_next"    in the loop that moves the next events                *)
(*   "tempo_done"    the call has returned                                 *)
(***************************************************************************)
TempoEvents ==
    {Tempo(12000000), Tempo(24000000), TimeSig(2, 1), Prog(5)}

\* beats per minute given to track_settempo
TempoArgs == {60, 120}

TempoValues == {e.b0 : e \in {x \in TempoEvents : x.cmd = "TEMPO"}}

TempoTracks ==
    UNION {TracksOf(TempoEvents, n, MaxTempoDelta) : n \in 0..MaxTempoEv}

InitTempo ==
    /\ track \in TempoTracks
    /\ \E m \in 0..MaxTempoMeas, tempo \in TempoArgs :
          last = [op |-> "tempo_seek", ret |-> 0, measure |-> m,
                  tempo |-> tempo, usec24 |-> 0, at |-> 0]
    /\ org = track
    /\ src = <<>>
    /\ sp = seqptr_init(track)
    /\ rd = seqptr_init(<<>>)
    /\ slist = <<>>
    /\ fault = FALSE
    /\ steps = 0

\* go to the requested position, insert blank if necessary
TempoSeek ==
    /\ last.op = "tempo_seek"
    /\ \E k \in {seqptr_skipmeasure(track, sp, last.measure)} :
       \E p \in {seqptr_ticput(k.t, k.sp, k.n)} :
          /\ track' = p.t
          /\ sp' = p.sp
          /\ slist' = statelist_dup(p.sp.statelist)
          /\ last' = [last EXCEPT !.op = "tempo_remove", !.at = p.sp.tic]
    /\ UNCHANGED <<src, rd, org, fault, steps>>

\* one turn of the loop that removes tempo events at the current tic
TempoRemove ==
    /\ last.op = "tempo_remove"
    /\ \E e \in {seqptr_evdel(track, sp, TRUE, slist)} :
          IF e.st = 0
          THEN /\ last' = [last EXCEPT !.op = "tempo_insert"]
               /\ UNCHANGED <<track, sp, slist>>
          ELSE \E w \in {IF e.slist[e.st].ev.cmd # "TEMPO"
                         THEN seqptr_evput(e.t, e.sp, e.slist[e.st].ev)
                         ELSE e} :
                  /\ track' = w.t
                  /\ sp' = w.sp
                  /\ slist' = e.slist
                  /\ UNCHANGED last
    /\ UNCHANGED <<src, rd, org, fault, steps>>

\* if needed, insert a new tempo event
TempoInsert ==
    /\ last.op = "tempo_insert"
    /\ \E usec24 \in {TEMPO_TO_USEC24(last.tempo, seqptr_getsign(sp).tpb)} :
       \E w \in {IF usec24 # seqptr_gettempo(sp).usec24
                 THEN seqptr_evput(track, sp, Tempo(usec24))
                 ELSE [t |-> track, sp |-> sp]} :
          /\ track' = w.t
          /\ sp' = w.sp
          /\ last' = [last EXCEPT !.op = "tempo_next", !.usec24 = usec24]
    /\ UNCHANGED <<slist, src, rd, org, fault, steps>>

\* one turn of the loop that moves the next events, skipping duplicate
\* tempos; usec24 = st->ev.data.tempo.usec24 is done for every event that
\* is put back, tempo or not
TempoNext ==
    /\ last.op = "tempo_next"
    /\ \E x \in {seqptr_ticdel(track, sp, AllTics, TRUE, slist)} :
       \E p \in {seqptr_ticput(x.t, x.sp, x.n)} :
       \E e \in {seqptr_evdel(p.t, p.sp, TRUE, x.slist)} :
          IF e.st = 0
          THEN /\ track' = e.t
               /\ sp' = e.sp
               /\ slist' = e.slist
               /\ last' = [last EXCEPT !.op = "tempo_done"]
          ELSE IF settempo_keep(e.slist[e.st].ev, last.usec24)
          THEN \E w \in {seqptr_evput(e.t, e.sp, e.slist[e.st].ev)} :
               \E u \in settempo_pun(e.slist[e.st].ev, TempoValues) :
                  /\ track' = w.t
                  /\ sp' = w.sp
                  /\ slist' = e.slist
                  /\ last' = [last EXCEPT !.usec24 = u]
          ELSE /\ track' = e.t
               /\ sp' = e.sp
               /\ slist' = e.slist
               /\ UNCHANGED last
    /\ UNCHANGED <<src, rd, org, fault, steps>>

NextTempo == TempoSeek \/ TempoRemove \/ TempoInsert \/ TempoNext

SpecTempo == InitTempo /\ [][NextTempo]_vars

RECURSIVE TempoBefore(_, _)
\* the tempo in effect in track t just before its event i
TempoBefore(t, i) ==
    IF i <= 1 THEN DEFAULT_USEC24
    ELSE IF t[i - 1].ev.cmd = "TEMPO" THEN t[i - 1].ev.b0
    ELSE TempoBefore(t, i - 1)

\* the events of track t that are no tempo, with their tics
NonTempo(t) == SelectSeq(EvTics(t), LAMBDA x : x[2].cmd # "TEMPO")

\* the tempo of the call is in effect at the first tic of the measure
TempoSet ==
    seqptr_gettempo(ReadThrough(track, last.at)).usec24
    = TEMPO_TO_USEC24(last.tempo,
                      seqptr_getsign(ReadThrough(track, last.at)).tpb)

\* from the tic of the measure on, no tempo event sets the tempo that is
\* in effect just before it
TempoCollapsed ==
    \A i \in 1..NumEvents(track) :
       track[i].ev.cmd = "TEMPO" /\ EvTics(track)[i][1] >= last.at =>
          track[i].ev.b0 # TempoBefore(track, i)

\* C25: when track_settempo(t, m, tempo) has returned, the tempo in effect
\* at the first tic of measure m is TEMPO_TO_USEC24(tempo, tpb), from that
\* tic on no tempo event repeats the tempo in effect just before it, and
\* the events that are no tempo are at the tics where they were.
C25_SetTempo ==
    last.op = "tempo_done" =>
        /\ TempoSet
        /\ TempoCollapsed
        /\ NonTempo(track) = NonTempo(org)

(***************************************************************************)
(* SpecTimeIns: track_timeins(t, measure, amount, bpm, tpb) on a track of  *)
(* time signature, tempo and program events, one turn of its loops at a    *)
(* time.  track is t, sp its seqptr, slist the states of the track as it   *)
(* was, org the track before the call.  last holds the arguments, the      *)
(* saved signature, the tic of the measure (at) and last.op:               *)
(*   "ins_seek"  before seqptr_skipmeasure                                 *)
(*   "ins_move"  in the loop that moves the events of the current tic      *)
(*   "ins_rest"  in the loop that moves the rest of the track              *)
(*   "ins_done"  the call has returned                                     *)
(***************************************************************************)
InsEvents == {TimeSig(2, 1), TimeSig(1, 3), Tempo(1), Prog(5)}

\* the signatures given to track_timeins: (2, 1), (1, 3) and the default
InsSigns == {<<2, 1>>, <<1, 3>>, <<DEFAULT_BPM, DEFAULT_TPB>>}

InsTracks ==
    UNION {TracksOf(InsEvents, n, MaxInsDelta) : n \in 0..MaxInsEv}

InitTimeIns ==
    /\ track \in InsTracks
    /\ \E m \in 0..MaxInsMeas, amount \in 0..MaxAmount, sg \in InsSigns :
          last = [op |-> "ins_seek", ret |-> 0, measure |-> m,
                  amount |-> amount, bpm |-> sg[1], tpb |-> sg[2],
                  save_bpm |-> 0, save_tpb |-> 0, at |-> 0]
    /\ org = track
    /\ src = <<>>
    /\ sp = seqptr_init(track)
    /\ rd = seqptr_init(<<>>)
    /\ slist = <<>>
    /\ fault = FALSE
    /\ steps = 0

\* go to the requested position, insert blank if necessary; append the new
\* time signature, blank space
InsSeek ==
    /\ last.op = "ins_seek"
    /\ \E k \in {seqptr_skipmeasure(track, sp, last.measure)} :
       \E p \in {seqptr_ticput(k.t, k.sp, k.n)} :
       \E sg \in {seqptr_getsign(p.sp)} :
       \E w \in {timeins_sign(timeins_differs(last.bpm, last.tpb,
                                                sg.bpm, sg.tpb),
                                p.t, p.sp,
                                TimeSig(last.bpm, last.tpb))} :
       \E b \in {seqptr_ticput(w.t, w.sp,
                               UMul(UMul(last.bpm, last.tpb),
                                    last.amount))} :
          /\ track' = b.t
          /\ sp' = b.sp
          /\ slist' = statelist_dup(p.sp.statelist)
          /\ last' = [last EXCEPT !.op = "ins_move", !.at = p.sp.tic,
                                  !.save_bpm = sg.bpm, !.save_tpb = sg.tpb]
    /\ UNCHANGED <<src, rd, org, fault, steps>>

\* one turn of the loop that moves the events of the current tic, skipping
\* a duplicate signature change and restoring the old signature if needed
InsMove ==
    /\ last.op = "ins_move"
    /\ \E e \in {seqptr_evdel(track, sp, TRUE, slist)} :
          IF e.st = 0
          THEN \E w \in {timeins_sign(
                              timeins_differs(last.bpm, last.tpb,
                                              last.save_bpm, last.save_tpb),
                              track, sp,
                              TimeSig(last.save_bpm, last.save_tpb))} :
                  /\ track' = w.t
                  /\ sp' = w.sp
                  /\ slist' = e.slist
                  /\ last' = [last EXCEPT !.op = "ins_rest"]
          ELSE IF e.slist[e.st].ev.cmd = "TIMESIG"
          THEN \E w \in {timeins_sign(
                              timeins_differs(e.slist[e.st].ev.b0,
                                              e.slist[e.st].ev.b1,
                                              last.bpm, last.tpb),
                              e.t, e.sp, e.slist[e.st].ev)} :
                  /\ track' = w.t
                  /\ sp' = w.sp
                  /\ slist' = e.slist
                  /\ last' = [last EXCEPT !.op = "ins_rest"]
          ELSE \E w \in {seqptr_evput(e.t, e.sp, e.slist[e.st].ev)} :
                  /\ track' = w.t
                  /\ sp' = w.sp
                  /\ slist' = e.slist
                  /\ UNCHANGED last
    /\ UNCHANGED <<src, rd, org, fault, steps>>

\* one turn of the loop that moves the rest of the track
InsRest ==
    /\ last.op = "ins_rest"
    /\ \E x \in {seqptr_ticdel(track, sp, AllTics, TRUE, slist)} :
       \E p \in {seqptr_ticput(x.t, x.sp, x.n)} :
       \E e \in {seqptr_evdel(p.t, p.sp, TRUE, x.slist)} :
          IF e.st = 0
          THEN /\ track' = e.t
               /\ sp' = e.sp
               /\ slist' = e.slist
               /\ last' = [last EXCEPT !.op = "ins_done"]
          ELSE \E w \in {seqptr_evput(e.t, e.sp, e.slist[e.st].ev)} :
                  /\ track' = w.t
                  /\ sp' = w.sp
                  /\ slist' = e.slist
                  /\ UNCHANGED last
    /\ UNCHANGED <<src, rd, org, fault, steps>>

NextTimeIns == InsSeek \/ InsMove \/ InsRest

SpecTimeIns == InitTimeIns /\ [][NextTimeIns]_vars

\* the tics inserted by the call
InsTics == last.amount * last.bpm * last.tpb

\* the events of track t before tic T, and those at or after it moved by n
EvBefore(t, T) == SelectSeq(EvTics(t), LAMBDA x : x[1] < T)

EvFrom(t, T, n) ==
    LET s == SelectSeq(EvTics(t), LAMBDA x : x[1] >= T)
    IN [i \in 1..Len(s) |-> <<s[i][1] + n, s[i][2]>>]

\* sequence s without its element i
DropAt(s, i) == SubSeq(s, 1, i - 1) \o SubSeq(s, i + 1, Len(s))

\* s is sequence r, or r with the one element x put somewhere in it
WithOne(s, r, x) ==
    \/ s = r
    \/ \E i \in 1..Len(s) : s[i] = x /\ DropAt(s, i) = r

\* the signature as a pair
SignOf(p) == <<seqptr_getsign(p).bpm, seqptr_getsign(p).tpb>>

\* the signature of the track as it was, before the events of the tic of
\* the measure
InsSave == SignOf(seqptr_skip(org, seqptr_init(org), last.at).sp)

\* the new signature event, there if the signature of the call is not the
\* one the track had
InsNew ==
    IF InsSave # <<last.bpm, last.tpb>>
    THEN << <<last.at, TimeSig(last.bpm, last.tpb)>> >>
    ELSE << >>

\* the events up to the inserted tics, those after them, and the events of
\* the track as it was moved by the inserted tics
InsHead == EvBefore(org, last.at) \o InsNew

InsTail == SubSeq(EvTics(track), Len(InsHead) + 1, NumEvents(track))

InsShifted == EvFrom(org, last.at, InsTics)

\* the events before the measure are where they were, amount * bpm * tpb
\* tics are added that hold no event but the new signature and are under
\* it, and the signature after them is the one the track had at that point
InsFrame ==
    /\ NumEvents(track) >= Len(InsHead)
    /\ SubSeq(EvTics(track), 1, Len(InsHead)) = InsHead
    /\ \A i \in 1..Len(InsTail) : InsTail[i][1] >= last.at + InsTics
    /\ TrackLength(track) = MaxOf({TrackLength(org), last.at}) + InsTics
    /\ InsTics > 0 =>
          SignOf(ReadThrough(track, last.at)) = <<last.bpm, last.tpb>>
    /\ SignOf(ReadThrough(track, last.at + InsTics))
       = SignOf(ReadThrough(org, last.at))

\* a restoring signature is needed: the track has no signature event at the
\* tic of the measure and its signature there is not that of the call
InsNeeded ==
    /\ InsSave # <<last.bpm, last.tpb>>
    /\ \A i \in 1..NumEvents(org) :
          EvTics(org)[i][1] = last.at => org[i].ev.cmd # "TIMESIG"

\* the restoring event
InsRestore == <<last.at + InsTics, TimeSig(InsSave[1], InsSave[2])>>

\* C26 as stated: every event at or after the tic of the measure is moved
\* by amount * bpm * tpb tics, and a restoring signature is there if and
\* only if it is needed.
C26_TimeInsAll ==
    last.op = "ins_done" =>
        /\ InsFrame
        /\ IF InsNeeded
           THEN /\ InsTail # InsShifted
                /\ WithOne(InsTail, InsShifted, InsRestore)
           ELSE InsTail = InsShifted

\* the duplicate: the first signature event of the tic of the measure, if
\* it is the signature of the call; 0 if there is none
InsDup ==
    LET sigs == {i \in 1..Len(InsShifted) :
                    /\ InsShifted[i][1] = last.at + InsTics
                    /\ InsShifted[i][2].cmd = "TIMESIG"}
    IN IF sigs = {} THEN 0
       ELSE IF InsShifted[-MaxOf({-i : i \in sigs})][2]
               = TimeSig(last.bpm, last.tpb)
            THEN -MaxOf({-i : i \in sigs})
            ELSE 0

\* the events after the inserted tics: those of the track as it was, moved,
\* without the duplicate, with the restoring event after the last event of
\* the tic of the measure if it is needed
InsExpected ==
    IF InsNeeded
    THEN SelectSeq(InsShifted, LAMBDA x : x[1] = last.at + InsTics)
         \o <<InsRestore>>
         \o SelectSeq(InsShifted, LAMBDA x : x[1] > last.at + InsTics)
    ELSE IF InsDup # 0
         THEN DropAt(InsShifted, InsDup)
         ELSE InsShifted

\* C26: track_timeins adds amount * bpm * tpb tics at the tic of the
\* measure; the events before it keep their tic, every event at or after
\* it is moved by that many tics, but a signature event of that tic which
\* is the first one there and equals (bpm, tpb) is dropped; the added tics
\* are under (bpm, tpb), and the signature after them is the one the track
\* had, a restoring event being there if and only if it is needed.
C26_TimeIns ==
    last.op = "ins_done" => InsFrame /\ InsTail = InsExpected

\* a duplicate has been dropped, events after it have been moved
C26_Witness ==
    /\ last.op = "ins_done"
    /\ InsDup # 0
    /\ InsTics > 0
    /\ Len(InsShifted) >= 3
    /\ InsSave # <<last.bpm, last.tpb>>
(***************************************************************************)
(* SpecTimeRm: track_timerm(t, measure, amount) on a track of time         *)
(* signature and tempo events, one turn of its loops at a time.  track is  *)
(* t, sp its seqptr, slist the states of the track as it was, org the      *)
(* track before the call.  last holds the arguments, tic and len, and      *)
(* last.op:                                                                *)
(*   "rm_seek"     before the first seqptr_skipmeasure                     *)
(*   "rm_cut"      in the loop that removes everything during len tics     *)
(*   "rm_next"     in the loop that processes the next tic                 *)
(*   "rm_restore"  before the loop that restores the states                *)
(*   "rm_copy"     in the loop that copies the rest of the track           *)
(*   "rm_done"     the call has returned; last.ret = 0 if it returned      *)
(*                 at once                                                 *)
(***************************************************************************)
RmEvents == {TimeSig(2, 1), TimeSig(1, 3), Tempo(1), Tempo(2)}

RmTracks ==
    UNION {TracksOf(RmEvents, n, MaxRmDelta) : n \in 0..MaxRmEv}

InitTimeRm ==
    /\ track \in RmTracks
    /\ \E m \in 0..MaxRmMeas, amount \in 0..MaxRmAmount :
          last = [op |-> "rm_seek", ret |-> 0, measure |-> m,
                  amount |-> amount, tic |-> 0, len |-> 0, left |-> 0]
    /\ org = track
    /\ src = <<>>
    /\ sp = seqptr_init(track)
    /\ rd = seqptr_init(<<>>)
    /\ slist = <<>>
    /\ fault = FALSE
    /\ steps = 0

\* go to the requested position and determine the number of tics to
\* delete; go to the start position, tag all frames
RmSeek ==
    /\ last.op = "rm_seek"
    /\ \E k \in {seqptr_skipmeasure(track, sp, last.measure)} :
          IF k.n # 0
          THEN /\ last' = [last EXCEPT !.op = "rm_done"]
               /\ UNCHANGED <<sp, slist>>
          ELSE \E a \in {seqptr_skipmeasure(track, k.sp, last.amount)} :
               \E c \in {seqptr_skip(track, seqptr_init(track),
                                     k.sp.tic)} :
                  /\ sp' = c.sp
                  /\ slist' = timerm_tagall(statelist_dup(c.sp.statelist))
                  /\ last' = [last EXCEPT !.op = "rm_cut", !.ret = 1,
                                          !.tic = k.sp.tic,
                                          !.len = USub(a.sp.tic, k.sp.tic),
                                          !.left = USub(a.sp.tic, k.sp.tic)]
    /\ UNCHANGED <<track, src, rd, org, fault, steps>>

\* one turn of the loop that removes everything during len tics
RmCut ==
    /\ last.op = "rm_cut"
    /\ \E x \in {seqptr_ticdel(track, sp, last.left, TRUE, slist)} :
          IF USub(last.left, x.n) = 0 \/ ~seqptr_evavail(x.t, x.sp)
          THEN /\ track' = x.t
               /\ sp' = x.sp
               /\ slist' = x.slist
               /\ last' = [last EXCEPT !.op = "rm_next",
                                       !.left = USub(@, x.n)]
          ELSE \E e \in {seqptr_evdel(x.t, x.sp, TRUE, x.slist)} :
                  /\ track' = e.t
                  /\ sp' = e.sp
                  /\ slist' = [e.slist EXCEPT ![e.st].tag = 0]
                  /\ last' = [last EXCEPT !.left = USub(@, x.n)]
    /\ UNCHANGED <<src, rd, org, fault, steps>>

\* one turn of the loop that processes the next tic
RmNext ==
    /\ last.op = "rm_next"
    /\ IF seqptr_evavail(track, sp)
       THEN \E e \in {seqptr_evdel(track, sp, TRUE, slist)} :
            \E w \in {timerm_put(e.t, e.sp, e.slist[e.st].ev)} :
               /\ track' = w.t
               /\ sp' = w.sp
               /\ slist' = [e.slist EXCEPT ![e.st].tag = 1]
               /\ UNCHANGED last
       ELSE /\ last' = [last EXCEPT !.op = "rm_restore"]
            /\ UNCHANGED <<track, sp, slist>>
    /\ UNCHANGED <<src, rd, org, fault, steps>>

\* restore all states that are not tagged
RmRestore ==
    /\ last.op = "rm_restore"
    /\ \E r \in {timerm_restore(track, sp, slist, 1)} :
          /\ track' = r.t
          /\ sp' = r.sp
          /\ slist' = r.slist
    /\ last' = [last EXCEPT !.op = "rm_copy"]
    /\ UNCHANGED <<src, rd, org, fault, steps>>

\* one turn of the loop that copies all events of tagged frames
RmCopy ==
    /\ last.op = "rm_copy"
    /\ \E x \in {seqptr_ticdel(track, sp, AllTics, TRUE, slist)} :
       \E p \in {seqptr_ticput(x.t, x.sp, x.n)} :
          IF ~seqptr_evavail(p.t, p.sp)
          THEN /\ track' = p.t
               /\ sp' = p.sp
               /\ slist' = x.slist
               /\ last' = [last EXCEPT !.op = "rm_done"]
          ELSE \E e \in {seqptr_evdel(p.t, p.sp, TRUE, x.slist)} :
               \E w \in {timerm_put(e.t, e.sp, e.slist[e.st].ev)} :
                  /\ track' = w.t
                  /\ sp' = w.sp
                  /\ slist' = [e.slist EXCEPT ![e.st].tag = 1]
                  /\ UNCHANGED last
    /\ UNCHANGED <<src, rd, org, fault, steps>>

NextTimeRm == RmSeek \/ RmCut \/ RmNext \/ RmRestore \/ RmCopy

SpecTimeRm == InitTimeRm /\ [][NextTimeRm]_vars

\* s is a subsequence of r from i and j on
RECURSIVE IsSubSeq(_, _, _, _)
IsSubSeq(s, r, i, j) ==
    IF i > Len(s) THEN TRUE
    ELSE IF j > Len(r) THEN FALSE
    ELSE IF s[i] = r[j] THEN IsSubSeq(s, r, i + 1, j + 1)
    ELSE IsSubSeq(s, r, i, j + 1)

\* the measure is past the end of the track
RmPast == seqptr_skipmeasure(org, seqptr_init(org), last.measure).n # 0

\* the tics of the cut: from the tic of the measure to the tic of measure
\* m + amount, or to the end of the track
RmTic == track_findmeasure(org, last.measure)

RmLen ==
    Min(track_findmeasure(org, last.measure + last.amount),
        TrackLength(org)) - RmTic

\* the length is len tics less and the events before the cut are where
\* they were
RmFrame ==
    /\ last.ret = 1
    /\ last.tic = RmTic
    /\ last.len = RmLen
    /\ TrackLength(track) = TrackLength(org) - RmLen
    /\ EvBefore(track, RmTic) = EvBefore(org, RmTic)

\* C27 as stated: a measure past the end of the track leaves the track as
\* it was; else the length is len tics less, the events before the cut
\* keep their tic and every event after the cut is len tics earlier.
C27_TimeRmAll ==
    last.op = "rm_done" =>
        IF RmPast
        THEN track = org /\ last.ret = 0
        ELSE /\ RmFrame
             /\ IsSubSeq(EvFrom(org, RmTic + RmLen, -RmLen),
                         EvFrom(track, RmTic, 0), 1, 1)

\* the elements of s whose index from i on is in I, in their order
RECURSIVE Pick(_, _, _)
Pick(s, I, i) ==
    IF i > Len(s) THEN << >>
    ELSE (IF i \in I THEN <<s[i]>> ELSE << >>) \o Pick(s, I, i + 1)

\* the event i of the list evs of (tic, event) repeats the latest event of
\* its frame before it
DupIn(evs, i) ==
    LET same == {j \in 1..(i - 1) : FrameId(evs[j][2]) = FrameId(evs[i][2])}
    IN same # {} /\ evs[MaxOf(same)][2] = evs[i][2]

\* the events of the track as it was, and those without the events of the
\* cut, the later ones len tics earlier
RmOrg == EvTics(org)

RmKept == EvBefore(org, RmTic) \o EvFrom(org, RmTic + RmLen, -RmLen)

RmNumBefore == Len(EvBefore(org, RmTic))

RmNumCut == Len(RmOrg) - Len(RmKept)

\* the events of the end of the cut that are put back: those that do not
\* repeat the latest event of their frame that is left
RmAtCut ==
    Pick(RmKept, {i \in (RmNumBefore + 1)..Len(RmKept) :
                     RmKept[i][1] = RmTic /\ ~DupIn(RmKept, i)}, 1)

\* the later events that are put back: those that do not repeat the latest
\* event of their frame
RmLater ==
    Pick(RmKept, {i \in (RmNumBefore + 1)..Len(RmKept) :
                     RmKept[i][1] > RmTic /\ ~DupIn(RmOrg, i + RmNumCut)}, 1)

\* the restoring events: the last event in the cut of each frame that has
\* no event at the end of the cut, if it is not the event that the frame
\* had before the cut
RmRestored ==
    {<<RmTic, RmOrg[c][2]>> : c \in
        {c \in (RmNumBefore + 1)..(RmNumBefore + RmNumCut) :
            /\ \A d \in (c + 1)..(RmNumBefore + RmNumCut) :
                  FrameId(RmOrg[d][2]) # FrameId(RmOrg[c][2])
            /\ \A i \in (RmNumBefore + 1)..Len(RmKept) :
                  RmKept[i][1] = RmTic =>
                     FrameId(RmKept[i][2]) # FrameId(RmOrg[c][2])
            /\ ~DupIn(EvBefore(org, RmTic) \o <<RmOrg[c]>>,
                      RmNumBefore + 1)}}

\* the events of the track from the tic of the cut on
RmTail == EvFrom(track, RmTic, 0)

\* C27: a measure past the end of the track leaves the track as it was;
\* else the length is len tics less, the events before the cut keep their
\* tic and every event after the cut is len tics earlier, but an event
\* that repeats the latest earlier event of its frame left in the track is
\* dropped; the frames changed in the cut that have no event at its end
\* get a restoring event at the tic of the cut.
C27_TimeRm ==
    last.op = "rm_done" =>
        IF RmPast
        THEN track = org /\ last.ret = 0
        ELSE /\ RmFrame
             /\ Len(RmTail)
                = Len(RmAtCut) + Cardinality(RmRestored) + Len(RmLater)
             /\ SubSeq(RmTail, 1, Len(RmAtCut)) = RmAtCut
             /\ {RmTail[i] : i \in (Len(RmAtCut) + 1)
                                   ..(Len(RmTail) - Len(RmLater))}
                = RmRestored
             /\ SubSeq(RmTail, Len(RmTail) - Len(RmLater) + 1, Len(RmTail))
                = RmLater

\* a cut of some tics with an event in it has been made in the track, an
\* event after it repeated the event left before it and has been dropped,
\* another one has been moved
C27_Witness ==
    /\ last.op = "rm_done"
    /\ ~RmPast
    /\ RmLen > 0
    /\ RmNumCut > 0
    /\ Len(RmAtCut) + Len(RmLater) > 0
    /\ Len(RmAtCut) + Len(RmLater) < Len(RmKept) - RmNumBefore

(***************************************************************************)
(* SpecReaders: two seqptr structures, sp and rd, read the same track, the *)
(* calls of seqptr_evget, seqptr_ticskip and seqptr_skip of the two coming *)
(* in any order.  org is the track as it was.  src is the list of the      *)
(* (tic, event) that sp has read and slist the list of those that rd has   *)
(* read.                                                                  *)
(***************************************************************************)
ReadEvents == {NoteOn(60, 100), NoteOff(60), Prog(5)}

ReadTracks ==
    UNION {TracksOf(ReadEvents, n, MaxReadDelta) : n \in 0..MaxReadEv}

InitReaders ==
    /\ track \in ReadTracks
    /\ org = track
    /\ sp = seqptr_init(track)
    /\ rd = seqptr_init(track)
    /\ src = << >>
    /\ slist = << >>
    /\ last = [op |-> "read", ret |-> 0]
    /\ fault = FALSE
    /\ steps = 0

\* the (tic, event) that a call of seqptr_evget by cursor c gives: the
\* event of the state it returns, nothing if it returns NULL
evget_seen(t, c) ==
    IF seqptr_evget(t, c).st = 0 THEN << >>
    ELSE << <<c.tic,
              seqptr_evget(t, c).sp.statelist[seqptr_evget(t, c).st].ev>> >>

\* those that the calls of seqptr_evget made by seqptr_skip give
RECURSIVE getall_seen(_, _)
getall_seen(t, c) ==
    IF seqptr_evget(t, c).st = 0 THEN << >>
    ELSE evget_seen(t, c) \o getall_seen(t, seqptr_evget(t, c).sp)

RECURSIVE skip_seen(_, _, _)
skip_seen(t, c, ntics) ==
    IF seqptr_eot(t, c) \/ ntics = 0 THEN << >>
    ELSE LET c1 == seqptr_getall(t, c)
             r == seqptr_ticskip(t, c1, ntics)
         IN getall_seen(t, c) \o skip_seen(t, r.sp, ntics - r.n)

SpEvGet ==
    /\ \E r \in {seqptr_evget(track, sp)} :
          /\ track' = r.t
          /\ sp' = r.sp
          /\ src' = src \o evget_seen(track, sp)
    /\ UNCHANGED <<rd, slist, org, last, fault, steps>>

SpTicSkip ==
    /\ \E max \in 1..MaxReadTics :
       \E r \in {seqptr_ticskip(track, sp, max)} :
          /\ track' = r.t
          /\ sp' = r.sp
    /\ UNCHANGED <<rd, src, slist, org, last, fault, steps>>

SpSkip ==
    /\ \E ntics \in 1..MaxReadTics :
       \E r \in {seqptr_skip(track, sp, ntics)} :
          /\ track' = r.t
          /\ sp' = r.sp
          /\ src' = src \o skip_seen(track, sp, ntics)
    /\ UNCHANGED <<rd, slist, org, last, fault, steps>>

RdEvGet ==
    /\ \E r \in {seqptr_evget(track, rd)} :
          /\ track' = r.t
          /\ rd' = r.sp
          /\ slist' = slist \o evget_seen(track, rd)
    /\ UNCHANGED <<sp, src, org, last, fault, steps>>

RdTicSkip ==
    /\ \E max \in 1..MaxReadTics :
       \E r \in {seqptr_ticskip(track, rd, max)} :
          /\ track' = r.t
          /\ rd' = r.sp
    /\ UNCHANGED <<sp, src, slist, org, last, fault, steps>>

RdSkip ==
    /\ \E ntics \in 1..MaxReadTics :
       \E r \in {seqptr_skip(track, rd, ntics)} :
          /\ track' = r.t
          /\ rd' = r.sp
          /\ slist' = slist \o skip_seen(track, rd, ntics)
    /\ UNCHANGED <<sp, src, org, last, fault, steps>>

NextReaders ==
    \/ SpEvGet \/ SpTicSkip \/ SpSkip
    \/ RdEvGet \/ RdTicSkip \/ RdSkip

SpecReaders == InitReaders /\ [][NextReaders]_vars

\* what a single seqptr that reads the track alone has read when it is at
\* the cell of cursor c: the events of the cells before it with their tic
SeenAlone(c) == SubSeq(EvTics(org), 1, c.pos - 1)

\* the states of the frames that are not terminated; a statelist is a set
\* of states
LiveStates(c) ==
    {c.statelist[i] : i \in {i \in 1..Len(c.statelist) :
                                c.statelist[i].phase # {EV_PHASE_LAST}}}

\* cursor c has the tic and the states of a single cursor that read the
\* track alone up to the cell and the delta of c
AsAlone(c) ==
    /\ c.tic = FreshRead(org, c.pos, c.delta).tic
    /\ LiveStates(c) = LiveStates(FreshRead(org, c.pos, c.delta))

\* C28: with two cursors reading the same track, their calls coming in any
\* order, the track is never modified, each cursor has read the (tic,
\* event) that a single cursor reading alone reads, and the states of each
\* are those of a single cursor that read alone up to the same position.
C28_Readers ==
    /\ track = org
    /\ src = SeenAlone(sp)
    /\ slist = SeenAlone(rd)
    /\ AsAlone(sp)
    /\ AsAlone(rd)

\* the two cursors are at different positions of a track of three events,
\* each with states in its list, one has read it to the end
C28_Witness ==
    /\ NumEvents(track) = 3
    /\ sp.pos = 4
    /\ rd.pos = 2
    /\ sp.tic > rd.tic
    /\ rd.delta > 0
    /\ LiveStates(sp) # {}
    /\ LiveStates(rd) # {}
    /\ LiveStates(sp) # LiveStates(rd)

(***************************************************************************)
(* SpecMergeShot: track_merge(dst, src) of consistent tracks that hold     *)
(* program changes, events that are a frame of their own, and notes.  The  *)
(* variables and the steps are those of SpecMerge.                         *)
(***************************************************************************)
ShotEvents == {Prog(5), Prog(7), NoteOn(60, 100), NoteOff(60)}

ShotTracks ==
    {t \in UNION {TracksOf(ShotEvents, n, MaxShotDelta) :
                     n \in 0..MaxShotEv} : Consistent(t)}

InitMergeShot ==
    /\ track \in ShotTracks
    /\ src \in ShotTracks
    /\ org = track
    /\ sp = seqptr_init(track)
    /\ rd = seqptr_init(src)
    /\ slist = <<>>
    /\ last = At("merge_dst")
    /\ fault = FALSE
    /\ steps = 0

SpecMergeShot == InitMergeShot /\ [][NextMerge]_vars

\* the states of orglist of the frames that an event of dst has started at
\* the current tic: seqptr_evmerge1 has given them their tag
ShotStarted ==
    {i \in 1..Len(slist) :
        /\ EV_PHASE_FIRST \in slist[i].phase
        /\ STATE_NEW \in slist[i].flags
        /\ ~IsBogus(slist[i])}

\* src has no state of the frame of ev that is not bogus, or the phase of
\* that state contains LAST
ShotFree(ev) ==
    LET s2 == NotBogus(rd.statelist, statelist_lookup(rd.statelist, ev))
    IN s2 = 0 \/ EV_PHASE_LAST \in rd.statelist[s2].phase

\* the event is in dst at the current tic, before the cursor
ShotPut(ev) ==
    \E k \in 1..(sp.pos - 1) :
        track[k].ev = ev /\ SumDelta(track, k) = sp.tic

\* C29: while track_merge handles the events of dst of one tic, a frame
\* that an event of dst has started is tagged, and the event is put in dst,
\* if and only if src has no state of the frame that is not bogus or the
\* phase of that state contains LAST.
C29_Merge1Live ==
    (last.op = "merge_dst" /\ ~fault) =>
        \A i \in ShotStarted :
            /\ slist[i].tag # 0 <=> ShotFree(slist[i].ev)
            /\ ShotPut(slist[i].ev) <=> ShotFree(slist[i].ev)

\* C30: after track_move() of 1 tic or more with copy = 1 every event of the copy is an
\* event that the selector matches, and an event of the copy that cancels a
\* frame which is not a note comes after an event of the copy that started
\* that frame: no frame is cancelled in the copy that was not copied.
C30_MoveOnlyCopied ==
    (last.op = "moved" /\ last.copy /\ last.len0 > 0) =>
        \A i \in 1..NumEvents(src) :
            /\ evspec_matchev(last.es, src[i].ev)
            /\ (~EV_ISNOTE(src[i].ev) /\ ev_phase(src[i].ev) = {EV_PHASE_LAST})
               => \E j \in 1..(i - 1) :
                     /\ FrameId(src[j].ev) = FrameId(src[i].ev)
                     /\ EV_PHASE_FIRST \in ev_phase(src[j].ev)

\* C31: track_move() of 1 tic or more with blank = 0 leaves src as it was:
\* the same (tic, event) in the same order, the same deltas, the same
\* length; no cancel and no restore event is added to it.  A frame that
\* starts in the first tic of the selection, or later in the selection if
\* the selector matches it, has no TAG_KEEP whatever blank is; if it is not
\* a note and goes on past the selection with no event at tic start + len,
\* it is restored in src there: an event is added.
C31_MoveKeepsSrc ==
    (last.op = "moved" /\ ~last.blank /\ last.len0 > 0) => track = org

\* C32: after any sequence of the primitives on one seqptr, every state of
\* its statelist whose pos was set points to a cell that is linked in the
\* track and lies before the cursor: a state whose cell seqptr_rmlast or
\* seqptr_rmprev has unlinked is no more in the list.
C32_NoRemovedCell ==
    ~fault =>
        \A k \in 1..Len(sp.statelist) :
            sp.statelist[k].pos # Unset =>
                ValidPos(track, sp, sp.statelist[k])

\* seqptr_rmlast() has unlinked the last of the cells of a frame whose first
\* cell was not the first of the track; the state is kept, its pos is the
\* first cell of the frame, and the list holds a second state
C32_Witness ==
    /\ last.op = "rmlast"
    /\ last.ret > 0
    /\ ~fault
    /\ Len(sp.statelist) = 2
    /\ sp.statelist[last.ret].pos > 1
    /\ state_match(sp.statelist[last.ret], track[sp.statelist[last.ret].pos].ev)
    /\ \A k \in 1..2 : sp.statelist[k].pos # Unset

\* C33: track_quantize, with rate <= 100, never reaches the panic
\* 'delta < -ofs', and when it comes to the division 100 * fluct / notes of
\* its summary, after track_merge, notes is not 0.
C33_QuantNoFault ==
    last.rate <= 100 =>
        /\ last.op # "panic"
        /\ last.op = "merged" => last.notes # 0

(***************************************************************************)
(* SpecPos: the primitives of Spec and, with them, seqptr_skip and         *)
(* seqptr_seek, called in any order on one seqptr.                         *)
(***************************************************************************)
Skip(ntics) ==
    /\ Usable
    /\ \E r \in {seqptr_skip(track, sp, ntics)} :
          /\ track' = r.t
          /\ sp' = r.sp
          /\ last' = [op |-> "skip", ret |-> r.n]
    /\ UNCHANGED slist
    /\ Others

Seek(ntics) ==
    /\ Usable
    /\ TrackLength(track) + ntics <= MaxLength
    /\ \E r \in {seqptr_seek(track, sp, ntics)} :
          /\ track' = r.t
          /\ sp' = r.sp
          /\ last' = [op |-> "seek", ret |-> 0]
    /\ UNCHANGED slist
    /\ Others

\* the events of the tracks that SpecPos starts from
PosEvents == {NoteOn(60, 100), NoteOff(60), Ctl(7, 64)}

PosTracks ==
    {t \in UNION {TracksOf(PosEvents, n, MaxDelta) : n \in 0..MaxInitEv} :
        TrackLength(t) <= MaxLength}

InitPos ==
    /\ track \in PosTracks
    /\ sp = seqptr_init(track)
    /\ slist = <<>>
    /\ last = NoOp
    /\ fault = FALSE
    /\ steps = 0
    /\ org = <<>>
    /\ rd = seqptr_init(<<>>)
    /\ src = <<>>

NextPos ==
    \/ EvGet
    \/ \E ev \in PosEvents : EvPut(ev)
    \/ EvDel(FALSE)
    \/ \E max \in 0..(MaxDelta + 1) : TicSkip(max)
    \/ \E max \in 0..(MaxDelta + 1) : TicDel(max, FALSE)
    \/ \E n \in 0..MaxDelta : TicPut(n)
    \/ \E k \in 1..Len(sp.statelist) : RmLast(k)
    \/ \E k \in 1..Len(sp.statelist) : RmPrev(k)
    \/ \E k \in 1..Len(sp.statelist) : RmFault(k)
    \/ \E ntics \in 0..(MaxDelta + 1) : Skip(ntics)
    \/ \E ntics \in 0..(MaxDelta + 1) : Seek(ntics)

SpecPos == InitPos /\ [][NextPos]_vars

\* the tic of the seqptr is the sum of the deltas of the cells before its
\* cell, plus its delta
PosIsTic == sp.tic = SumDelta(track, sp.pos - 1) + sp.delta

\* C34: after any sequence of the primitives, seqptr_skip and seqptr_seek
\* included, the tic of the seqptr is the sum of the deltas of the cells
\* before sp.pos plus sp.delta, and no step makes the tic smaller.
C34_Position == [](PosIsTic) /\ [][sp'.tic >= sp.tic]_vars

\* seqptr_rmlast() has unlinked the cell before the cursor, whose delta was
\* not 0, and given its delta to the cursor
C34_Witness ==
    /\ last.op = "rmlast"
    /\ sp.delta > 0
    /\ sp.delta = track[sp.pos].delta
    /\ sp.pos > 1
    /\ sp.tic > sp.delta


====
